---- MODULE Spec2Model ----
(***************************************************************************)
(* A model of the route engine and the switchover controller of depoy:     *)
(* Route (backend map, weighted distribution vector, health flips,         *)
(* StartSwitchOver / RemoveSwitchOver) and Switchover (Start loop, Stop),  *)
(* the metrics Repository (RegisterBackend, RemoveBackend, Monitor loop,   *)
(* Stop), the health checks and requests of a route, and the Router.       *)
(*                                                                         *)
(* Backend objects are heap objects: the route's map holds pointers to     *)
(* them, and so do a switchover (From, To) and the distribution vector.    *)
(* An object therefore outlives its removal from the map; `backend` is the *)
(* heap, `Backends` the key set of the map r.Backends.                     *)
(*                                                                         *)
(* Goroutines: one admin caller (the operations of Route, run one at a     *)
(* time; RemoveSwitchOver is split where it can block), one loop per       *)
(* started switchover, and the health checks.  The switchover code takes   *)
(* no lock, so the loop is split at its shared reads and writes.           *)
(***************************************************************************)
EXTENDS Integers, Sequences, FiniteSets, TLC

\* ------------------------------------------------------------------ bounds
\* Backend objects ever created by AddBackend (uuids are never reused).
MaxBackends == 3
\* Switchover objects ever created by NewSwitchover.
MaxSwitchovers == 2
\* failureCounter is an int that grows without limit when AllowedFailures = 0;
\* the loop's failing cycle is cut off at this count.
MaxFailures == 3

\* ------------------------------------------------------------- input sets
BackendIDs == 1..MaxBackends
SwitchoverIDs == 1..MaxSwitchovers
Names == {"a", "b", "c"}
\* backend weights an operator configures (spec: weight in [0,100])
Weights == {0, 99, 100}
StrategyTypes == {"random", "sticky"}

\* ------------------------------------------------------------------ state
VARIABLES
    Backends,            \* key set of r.Backends (ids of the Backend objects in the map)
    backend,             \* heap of Backend objects: id -> [Name, Weigth, Active]
    uuids,               \* number of Backend objects created so far (next uuid)
    Strategy,            \* r.Strategy.Type, "nil" while no strategy is set
    HealthCheck,         \* r.HealthCheck
    Switchover,          \* r.Switchover: 0 (nil) or the id of a Switchover object
    NextTargetDistr,     \* r.NextTargetDistr: sequence of backend ids
    lenNextTargetDistr,  \* r.lenNextTargetDistr
    switchover,          \* heap of Switchover objects: id -> fields and the loop's position
    counter,             \* package variable counter
    admin,               \* the admin caller: idle, or inside RemoveSwitchOver
    ret,                 \* outcome of the admin caller's last call: "nil", "error", "panic"
    crashed,             \* a panic left a goroutine without recover: the process is gone
    InChannel,           \* ResponseStatus of the measurements the last request or health
                         \* check has put on r.MetricsRepo.InChannel
    repoBackends,        \* key set of the repository's map m.Backends
    monitoredBackend,    \* heap of MonitoredBackend objects, each with its Monitor loop
    repository,          \* Repository: the channels shutdown and stopScraping, their loops
    tree,                \* Router.tree: method -> prefix -> handler
    preAdd,              \* history: a backend under watch (id, 0 for none) and the
                         \* distribution vector at its AddBackend (distr)
    lastHandle,          \* history: the last call of Router.AddHandler
    response,            \* what the last Router.ServeHTTP did with its request
    instance,            \* a scraped MonitoredBackend: ScrapeMetrics, Errors, and the
                         \* body its ScrapeURL answers with
    scrapeMetricsChannel,\* the ScrapeMetrics maps sent to m.scrapeMetricsChannel
    current,             \* the window aggregate Storage.ReadBackend returns
    metricRates,         \* what the last ReadRatesOfBackend returned
    selection,           \* a request inside Route.getNextBackend: what it has read
    listen               \* the Listen loop of the repository, its channels and the store

\* the route, its switchovers and the admin caller
coreVars == <<Backends, backend, uuids, Strategy, HealthCheck, Switchover,
              NextTargetDistr, lenNextTargetDistr, switchover, counter, admin, ret, crashed>>

\* the scrape of the metrics repository
scrapeVars == <<instance, scrapeMetricsChannel>>

\* the rates of a window
rateVars == <<current, metricRates>>

\* the metrics repository
repoVars == <<repoBackends, monitoredBackend, repository>>

\* what no operation of the route's weights and switchovers touches
notRoute == <<InChannel, repoVars, tree, preAdd, lastHandle, response, scrapeVars, rateVars, selection, listen>>

vars == <<coreVars, InChannel, repoVars, tree, preAdd, lastHandle, response, scrapeVars, rateVars, selection, listen>>

routeVars == <<Backends, backend, uuids, Strategy, HealthCheck,
               NextTargetDistr, lenNextTargetDistr>>

\* -------------------------------------------------------------- arithmetic
\* uint8 arithmetic of Go: results are taken modulo 2^8
Uint8(n) == n % 256

RECURSIVE GCD(_, _)
GCD(a, b) == IF b = 0 THEN a ELSE GCD(b, a % b)

\* GGT(listWeights): greatest common divisor of the list, 0 when every entry is 0
RECURSIVE GGT(_)
GGT(listWeights) ==
    IF listWeights = <<>> THEN 0
    ELSE GCD(Head(listWeights), GGT(Tail(listWeights)))

RECURSIVE SumSeq(_)
SumSeq(s) == IF s = <<>> THEN 0 ELSE Head(s) + SumSeq(Tail(s))

\* n copies of x
Repeat(x, n) == [i \in 1..n |-> x]

RECURSIVE Flatten(_)
Flatten(ss) == IF ss = <<>> THEN <<>> ELSE Head(ss) \o Flatten(Tail(ss))

\* the orders in which `for _, backend := range r.Backends` may visit the map
Orders(S) == {o \in [1..Cardinality(S) -> S] : \A i, j \in DOMAIN o : i # j => o[i] # o[j]}

\* ------------------------------------------------------------------ Backend
NoBackend == [Name |-> "", Weigth |-> 0, Active |-> FALSE]

\* Backend.UpdateWeight(weight): the weight is kept within [0,100]
UpdateWeight(weight) == IF weight > 100 THEN 100 ELSE weight

\* ------------------------------------------------------ Route.updateWeights
\* One run of updateWeights over the map `order` (the keys in the order the range
\* loop visits them) and the heap.  The result is what the run leaves in
\* r.NextTargetDistr and r.lenNextTargetDistr, or panic = TRUE when distr[k] is
\* written at k >= len(distr): then neither field is assigned.
\* An element 0 of the vector is a nil pointer (a position never written).
updateWeights(order, heap) ==
    LET activeBackends == SelectSeq(order, LAMBDA id : heap[id].Active)
        i == Len(activeBackends)
        listWeights == [j \in 1..Len(order) |->
                           IF j <= i THEN heap[activeBackends[j]].Weigth ELSE 0]
        ggt == GGT(listWeights)
        sum == Uint8(SumSeq([j \in 1..Len(order) |-> listWeights[j] \div ggt]))
        writes == Flatten([j \in 1..i |->
                     Repeat(activeBackends[j], heap[activeBackends[j]].Weigth \div ggt)])
        distr == [k \in 1..sum |-> IF k <= Len(writes) THEN writes[k] ELSE 0]
    IN  IF ggt > 0
        THEN IF Len(writes) > sum
             THEN [panic |-> TRUE, NextTargetDistr |-> NextTargetDistr,
                   lenNextTargetDistr |-> lenNextTargetDistr]
             ELSE [panic |-> FALSE, NextTargetDistr |-> distr,
                   lenNextTargetDistr |-> Len(distr)]
        ELSE [panic |-> FALSE, NextTargetDistr |-> <<>>, lenNextTargetDistr |-> 0]

\* the recomputation as part of an action: the map keys and heap are the ones the
\* action leaves; u is the result of one run
SetDistr(u) ==
    /\ NextTargetDistr' = u.NextTargetDistr
    /\ lenNextTargetDistr' = u.lenNextTargetDistr

\* Route.getNextBackend with the index drawn: 0 is the error "No backend is active"
getNextBackend(idx) ==
    IF lenNextTargetDistr = 0 THEN 0 ELSE NextTargetDistr[idx]

\* ---------------------------------------------------- Route.getNextBackend
\* A request inside getNextBackend, which takes no lock.
\*   pc       "idle", "index" (line 162 is being evaluated) or "return"
\*   hasLen, n       r.lenNextTargetDistr has been read for rand.Intn, its value
\*   hasDistr, distr r.NextTargetDistr has been read for the indexing, its value
\*   backend  the backend returned, 0 with the error "No backend is active"
\*   panic    line 162 panicked: index out of range, or rand.Intn(0)
NoSelection ==
    [pc |-> "idle", hasLen |-> FALSE, n |-> 0, hasDistr |-> FALSE, distr |-> <<>>,
     backend |-> 0, panic |-> FALSE]

\* line 158: a request reads r.lenNextTargetDistr and returns the error on 0
getNextBackendCheck ==
    /\ ~crashed
    /\ selection.pc \in {"idle", "return"}
    /\ selection' = [NoSelection EXCEPT
            !.pc = IF lenNextTargetDistr = 0 THEN "return" ELSE "index"]
    /\ UNCHANGED <<coreVars, InChannel, repoVars, tree, preAdd, lastHandle, response,
                   scrapeVars, rateVars, listen>>

\* line 162: the read of r.lenNextTargetDistr, the argument of rand.Intn
getNextBackendReadLen ==
    /\ ~crashed
    /\ selection.pc = "index"
    /\ ~selection.hasLen
    /\ selection' = [selection EXCEPT !.hasLen = TRUE, !.n = lenNextTargetDistr]
    /\ UNCHANGED <<coreVars, InChannel, repoVars, tree, preAdd, lastHandle, response,
                   scrapeVars, rateVars, listen>>

\* line 162: the read of r.NextTargetDistr, the slice that is indexed; the
\* order of the two reads is not fixed
getNextBackendReadDistr ==
    /\ ~crashed
    /\ selection.pc = "index"
    /\ ~selection.hasDistr
    /\ selection' = [selection EXCEPT !.hasDistr = TRUE, !.distr = NextTargetDistr]
    /\ UNCHANGED <<coreVars, InChannel, repoVars, tree, preAdd, lastHandle, response,
                   scrapeVars, rateVars, listen>>

\* lines 162-163: rand.Intn(n) draws idx, the slice read is indexed with it
getNextBackendIndex(idx) ==
    /\ ~crashed
    /\ selection.pc = "index"
    /\ selection.hasLen /\ selection.hasDistr
    /\ IF selection.n <= 0
       THEN /\ idx = 0
            /\ selection' = [selection EXCEPT !.pc = "return", !.panic = TRUE]
       ELSE /\ idx < selection.n
            /\ IF idx >= Len(selection.distr)
               THEN selection' = [selection EXCEPT !.pc = "return", !.panic = TRUE]
               ELSE selection' = [selection EXCEPT
                        !.pc = "return", !.backend = selection.distr[idx + 1]]
    /\ UNCHANGED <<coreVars, InChannel, repoVars, tree, preAdd, lastHandle, response,
                   scrapeVars, rateVars, listen>>

\* Route.UpdateBackendWeight up to line 148 or 151 of its updateWeights: the
\* weight is set and r.NextTargetDistr assigned, r.lenNextTargetDistr not yet
UpdateBackendWeightDistr(id, newWeigth) ==
    /\ admin.pc = "idle"
    /\ ~crashed
    /\ id \in Backends
    /\ LET heap == [backend EXCEPT ![id].Weigth = newWeigth]
       IN  /\ backend' = heap
           /\ \E order \in Orders(Backends) :
                LET u == updateWeights(order, heap)
                IN  IF u.panic
                    THEN /\ ret' = "panic"
                         /\ UNCHANGED <<NextTargetDistr, admin>>
                    ELSE /\ ret' = "nil"
                         /\ NextTargetDistr' = u.NextTargetDistr
                         /\ admin' = [admin EXCEPT !.pc = "len"]
    /\ UNCHANGED <<Backends, uuids, Strategy, HealthCheck, Switchover, lenNextTargetDistr,
                   switchover, counter, crashed>>
    /\ UNCHANGED notRoute

\* line 153 of updateWeights: r.lenNextTargetDistr = len(r.NextTargetDistr)
updateWeightsLen ==
    /\ ~crashed
    /\ admin.pc = "len"
    /\ lenNextTargetDistr' = Len(NextTargetDistr)
    /\ admin' = [admin EXCEPT !.pc = "idle"]
    /\ UNCHANGED <<Backends, backend, uuids, Strategy, HealthCheck, Switchover,
                   NextTargetDistr, switchover, counter, ret, crashed>>
    /\ UNCHANGED notRoute

\* ------------------------------------------------------ metrics: Repository
\* the zero time.Time; every other time is kept as the time that has passed
\* since it, in units of the loop's timeout
Zero == -1

\* activeFor of the threshold condition of a monitored backend
MonitorActiveFors == {1, 2}
\* a time that has passed is kept up to MaxAlertAge, beyond every activeFor
MaxAlertAge == 1 + CHOOSE a \in MonitorActiveFors : \A b \in MonitorActiveFors : b <= a

\* an entry of activeAlerts; Type "none" stands for no entry under the metric
NoAlert == [Type |-> "none", StartTime |-> Zero, EndTime |-> Zero, SendTime |-> Zero]

\* RegisterAlert, lines 203-210, and Monitor, lines 312-319: a new alert
NewAlert == [Type |-> "Pending", StartTime |-> 0, EndTime |-> Zero, SendTime |-> Zero]

\* A MonitoredBackend object and the goroutines around it.
\*   stopMonitoring  the channel of capacity 1: number of values in it
\*   alert           activeAlerts[condition.Metric] of its one threshold condition
\*   ActiveFor       condition.GetActiveFor()
\*   pc, out         position of the Monitor loop, the alert it is sending
\*   receiver        a goroutine of the route's backend receives from AlertChannel
\*   trueFor         history: Zero, or for how long the condition has evaluated
\*                   true at every tick up to the last one
\*   falseFor        history: the same for false
\*   sent            history: the Type of the last alert the Monitor loop sent;
\*                   Pending also once RegisterAlert has sent one while no
\*                   episode of the loop was open
NoMonitoredBackend ==
    [stopMonitoring |-> 0, alert |-> NoAlert, ActiveFor |-> 0, pc |-> "none",
     out |-> NoAlert, receiver |-> FALSE, trueFor |-> Zero, falseFor |-> Zero,
     sent |-> "none"]

\* RegisterBackend, lines 146-158, with the goroutines Route.Reload starts on
\* the new object: pc "go" is the Monitor goroutine before its first line
NewMonitoredBackend(activeFor) ==
    [NoMonitoredBackend EXCEPT !.ActiveFor = activeFor, !.pc = "go", !.receiver = TRUE]

\* Repository.RegisterBackend for every id of `ids` not yet in m.Backends
RegisterBackend(ids, activeFor) ==
    /\ repoBackends' = repoBackends \cup ids
    /\ monitoredBackend' = [id \in DOMAIN monitoredBackend |->
            IF id \in ids \ repoBackends THEN NewMonitoredBackend(activeFor)
            ELSE monitoredBackend[id]]

\* Repository.RemoveBackend, line 177: the send has room
StopMonitoringHasRoom(backendID) == monitoredBackend[backendID].stopMonitoring = 0

\* Repository.RemoveBackend, lines 177-180, on an id of m.Backends with room in
\* its channel.  stopsReceiver: the caller is Route.RemoveBackend, which goes on
\* to Backend.Stop(), after which nobody receives the backend's alerts.
SignalAndDelete(backendID, stopsReceiver) ==
    /\ repoBackends' = repoBackends \ {backendID}
    /\ monitoredBackend' = [monitoredBackend EXCEPT
            ![backendID].stopMonitoring = 1,
            ![backendID].receiver = IF stopsReceiver THEN FALSE ELSE @]

\* Repository.RegisterAlert(backendID, "Pending", ...) on an id of m.Backends:
\* line 212.  The send of line 213 keeps the calling goroutine until the alert
\* is received; the caller does nothing after it.
RegisterAlert(backendID) ==
    monitoredBackend' = [monitoredBackend EXCEPT
        ![backendID].alert = NewAlert,
        ![backendID].sent =
            IF @ \in {"none", "Resolved"} /\ monitoredBackend[backendID].out = NoAlert
            THEN "Pending" ELSE @]

\* ------------------------------------------------------------ Route: admin
Idle == admin.pc = "idle" /\ ~crashed

\* Route.SetStrategy
SetStrategy(type) ==
    /\ Idle
    /\ Strategy' = type
    /\ ret' = "nil"
    /\ UNCHANGED <<Backends, backend, uuids, HealthCheck, Switchover, NextTargetDistr,
                   lenNextTargetDistr, switchover, counter, admin, crashed>>
    /\ UNCHANGED notRoute

\* Route.AddBackend.  The history preAdd is written by the specification that
\* reads it.
AddBackend(name, weight) ==
    /\ Idle
    /\ uuids < MaxBackends
    /\ IF \E id \in Backends : backend[id].Name = name
       THEN /\ ret' = "error"
            /\ UNCHANGED <<Backends, backend, uuids>>
       ELSE /\ uuids' = uuids + 1
            /\ backend' = [backend EXCEPT ![uuids + 1] =
                              [Name |-> name, Weigth |-> weight, Active |-> ~HealthCheck]]
            /\ Backends' = Backends \cup {uuids + 1}
            /\ ret' = "nil"
    /\ UNCHANGED <<Strategy, HealthCheck, Switchover, NextTargetDistr,
                   lenNextTargetDistr, switchover, counter, admin, crashed>>
    /\ UNCHANGED <<InChannel, repoVars, tree, lastHandle, response, scrapeVars, rateVars, selection, listen>>

\* Route.Reload of a route that has its MetricsRepo: every backend of the map
\* that is not yet registered in the repository (AlertChan == nil) is registered
\* and gets its Monitor goroutines, activeFor being that of its threshold
\* condition.  Without health checks updateWeights runs once per backend; with
\* health checks validateStatus is started in a goroutine per backend.
Reload(activeFor) ==
    /\ Idle
    /\ Backends # {}
    /\ RegisterBackend(Backends, activeFor)
    /\ IF HealthCheck
       THEN /\ ret' = "nil"
            /\ UNCHANGED <<NextTargetDistr, lenNextTargetDistr>>
       ELSE \E order \in Orders(Backends) :
              LET u == updateWeights(order, backend)
              IN  /\ SetDistr(u)
                  /\ ret' = IF u.panic THEN "panic" ELSE "nil"
    /\ UNCHANGED <<Backends, backend, uuids, Strategy, HealthCheck, Switchover,
                   switchover, counter, admin, crashed>>
    /\ UNCHANGED <<InChannel, repository, tree, preAdd, lastHandle, response, scrapeVars, rateVars, selection, listen>>

\* Route.RemoveBackend, lines 304-311: the call panics
RemoveBackendRefused(backendID) ==
    /\ Switchover # 0
    /\ \/ switchover[Switchover].From = backendID
       \/ switchover[Switchover].To = backendID

\* Route.RemoveBackend of a backend of the map.  m.RemoveBackend deletes the
\* registration of a registered backend after its send into stopMonitoring;
\* while that channel is full the caller waits at the send (RemoveBackendSend).
\* The error of m.RemoveBackend for an unregistered id is dropped.
RemoveBackend(backendID) ==
    /\ Idle
    /\ backendID \in Backends
    /\ IF RemoveBackendRefused(backendID)
       THEN /\ ret' = "panic"
            /\ UNCHANGED <<Backends, admin, repoBackends, monitoredBackend>>
       ELSE IF backendID \in repoBackends /\ ~StopMonitoringHasRoom(backendID)
       THEN /\ admin' = [pc |-> "RemoveBackend", s |-> backendID]
            /\ UNCHANGED <<Backends, ret, repoBackends, monitoredBackend>>
       ELSE /\ Backends' = Backends \ {backendID}
            /\ ret' = "nil"
            /\ IF backendID \in repoBackends
               THEN SignalAndDelete(backendID, TRUE)
               ELSE UNCHANGED <<repoBackends, monitoredBackend>>
            /\ UNCHANGED admin
    /\ UNCHANGED <<backend, uuids, Strategy, HealthCheck, Switchover, NextTargetDistr,
                   lenNextTargetDistr, switchover, counter, crashed>>
    /\ UNCHANGED <<InChannel, repository, tree, preAdd, lastHandle, response, scrapeVars, rateVars, selection, listen>>

\* Repository.RemoveBackend called by itself
RepositoryRemoveBackend(backendID) ==
    /\ Idle
    /\ IF backendID \notin repoBackends
       THEN /\ ret' = "error"
            /\ UNCHANGED <<admin, repoBackends, monitoredBackend>>
       ELSE IF ~StopMonitoringHasRoom(backendID)
       THEN /\ admin' = [pc |-> "stopMonitoring", s |-> backendID]
            /\ UNCHANGED <<ret, repoBackends, monitoredBackend>>
       ELSE /\ SignalAndDelete(backendID, FALSE)
            /\ ret' = "nil"
            /\ UNCHANGED admin
    /\ UNCHANGED <<Backends, backend, uuids, Strategy, HealthCheck, Switchover,
                   NextTargetDistr, lenNextTargetDistr, switchover, counter, crashed>>
    /\ UNCHANGED <<InChannel, repository, tree, preAdd, lastHandle, response, scrapeVars, rateVars, selection, listen>>

\* metrics.go line 177 once the channel has room, and the rest of the call that
\* waited there: Repository.RemoveBackend, or Route.RemoveBackend around it
RemoveBackendSend ==
    /\ ~crashed
    /\ admin.pc \in {"RemoveBackend", "stopMonitoring"}
    /\ StopMonitoringHasRoom(admin.s)
    /\ SignalAndDelete(admin.s, admin.pc = "RemoveBackend")
    /\ Backends' = IF admin.pc = "RemoveBackend" THEN Backends \ {admin.s} ELSE Backends
    /\ admin' = [pc |-> "idle", s |-> 0]
    /\ ret' = "nil"
    /\ UNCHANGED <<backend, uuids, Strategy, HealthCheck, Switchover, NextTargetDistr,
                   lenNextTargetDistr, switchover, counter, crashed>>
    /\ UNCHANGED <<InChannel, repository, tree, preAdd, lastHandle, response, scrapeVars, rateVars, selection, listen>>

\* Route.UpdateBackendWeight
UpdateBackendWeight(id, newWeigth) ==
    /\ Idle
    /\ id \in 1..uuids
    /\ IF id \in Backends
       THEN LET heap == [backend EXCEPT ![id].Weigth = newWeigth]
            IN  /\ backend' = heap
                /\ \E order \in Orders(Backends) :
                     LET u == updateWeights(order, heap)
                     IN  /\ SetDistr(u)
                         /\ ret' = IF u.panic THEN "panic" ELSE "nil"
       ELSE /\ ret' = "error"
            /\ UNCHANGED <<backend, NextTargetDistr, lenNextTargetDistr>>
    /\ UNCHANGED <<Backends, uuids, Strategy, HealthCheck, Switchover,
                   switchover, counter, admin, crashed>>
    /\ UNCHANGED notRoute

\* ----------------------------------------------------- Route: health checks
\* Backend.UpdateStatus(status) as part of an action: a change of the flag
\* recomputes the distribution.  A panic of the recomputation is recovered
\* when `recovered` (inside healthCheck), else it ends the process.
UpdateStatus(id, status, recovered) ==
    IF backend[id].Active = status
    THEN UNCHANGED <<backend, NextTargetDistr, lenNextTargetDistr, crashed>>
    ELSE LET heap == [backend EXCEPT ![id].Active = status]
         IN  /\ backend' = heap
             /\ \E order \in Orders(Backends) :
                  LET u == updateWeights(order, heap)
                  IN  /\ SetDistr(u)
                      /\ crashed' = (u.panic /\ ~recovered)

\* the recomputation of UpdateStatus(status) panics
UpdateStatusPanics(id, status) ==
    /\ backend[id].Active # status
    /\ \E order \in Orders(Backends) :
         updateWeights(order, [backend EXCEPT ![id].Active = status]).panic

\* What r.Client.Send returns in a health check: 0 is err != nil (no response),
\* any other value the status code of the response.
HealthOutcomes == {0, 200, 500}

\* Route.healthCheck: its return value (false at line 356, true at line 362)
healthCheckPasses(outcome) == outcome # 0

\* Route.healthCheck(backend), lines 347-362.  A panic of the recomputation is
\* recovered by the deferred function, which leaves the check before it has
\* written a measurement.
healthCheck(id, outcome) ==
    IF healthCheckPasses(outcome)
    THEN /\ InChannel' = <<outcome>>
         /\ UNCHANGED <<backend, NextTargetDistr, lenNextTargetDistr, crashed>>
    ELSE IF backend[id].Active
    THEN /\ UpdateStatus(id, FALSE, TRUE)
         /\ InChannel' = IF UpdateStatusPanics(id, FALSE) THEN <<>> ELSE <<600>>
    ELSE /\ InChannel' = <<600>>
         /\ UNCHANGED <<backend, NextTargetDistr, lenNextTargetDistr, crashed>>

\* Route.RunHealthCheckOnBackends, lines 373-376: the periodic loop runs
\* healthCheck on a backend of the map and drops its result
RunHealthCheckOnBackends(id, outcome) ==
    /\ ~crashed
    /\ HealthCheck
    /\ id \in Backends
    /\ healthCheck(id, outcome)
    /\ UNCHANGED <<Backends, uuids, Strategy, HealthCheck, Switchover,
                   switchover, counter, admin, ret>>
    /\ UNCHANGED <<repoVars, tree, preAdd, lastHandle, response, scrapeVars, rateVars, selection, listen>>

\* Route.validateStatus of a backend of the map, in the goroutine Route.Reload
\* has started for it after registering it
validateStatus(id, outcome) ==
    /\ ~crashed
    /\ HealthCheck
    /\ id \in Backends
    /\ id \in repoBackends
    /\ IF healthCheckPasses(outcome)
       THEN /\ UpdateStatus(id, TRUE, FALSE)
            /\ InChannel' = <<outcome>>
            /\ UNCHANGED monitoredBackend
       ELSE /\ healthCheck(id, outcome)
            /\ RegisterAlert(id)
    /\ UNCHANGED <<Backends, uuids, Strategy, HealthCheck, Switchover,
                   switchover, counter, admin, ret>>
    /\ UNCHANGED <<repoBackends, repository, tree, preAdd, lastHandle, response, scrapeVars, rateVars, selection, listen>>

\* ------------------------------------------------------- Route: requests
\* Route.httpReturn(w), lines 511-527, applied to what r.Client.Send returns:
\* outcome 0 is err != nil, any other value the status code of the response;
\* copyFails is an error of copyBuffer.  m: the measurements it puts on
\* r.MetricsRepo.InChannel (their ResponseStatus), err: it returns an error.
httpReturn(outcome, copyFails) ==
    IF outcome = 0 THEN [err |-> TRUE, m |-> <<>>]
    ELSE IF copyFails THEN [err |-> TRUE, m |-> <<>>]
    ELSE [err |-> FALSE, m |-> <<outcome>>]

\* Route.httpDo with f = httpReturn(w), lines 501-508: the goroutine runs f on
\* the result of Send; done: the select takes ctx.Done(), waits for f and
\* returns ctx.Err()
httpDo(outcome, copyFails, done) ==
    [err |-> done \/ httpReturn(outcome, copyFails).err,
     m |-> httpReturn(outcome, copyFails).m]

\* r.Strategy.Handler on a request for which getNextBackend finds a backend: it
\* calls httpDo.  recorded: the handler records a measurement of its own when
\* httpDo returns an error.
Handler(outcome, copyFails, done, recorded) ==
    /\ ~crashed
    /\ lenNextTargetDistr > 0
    /\ outcome = 0 => ~copyFails
    /\ LET do == httpDo(outcome, copyFails, done)
       IN  InChannel' = do.m \o (IF do.err /\ recorded THEN <<600>> ELSE <<>>)
    /\ UNCHANGED <<coreVars, repoVars, tree, preAdd, lastHandle, response, scrapeVars, rateVars, selection, listen>>

\* ------------------------------------------------------------- Switchover
\* Time is counted in units of s.Timeout.  A condition's TriggerTime holds Zero
\* (the zero time.Time) or the time that has passed since the instant it holds,
\* now - TriggerTime; the test TriggerTime.Add(activeFor).Before(now) is
\* activeFor < now - TriggerTime.  A time that has passed is kept up to MaxAge,
\* beyond every activeFor, where the test no longer changes.
ActiveFors == {0, 1}
MaxAge == 1 + CHOOSE a \in ActiveFors : \A b \in ActiveFors : b <= a
\* the time the select waited before its timer case ran: s.Timeout or more
Waits == {1, 2}

NoSwitchover ==
    [From |-> 0, To |-> 0, Status |-> "", Conditions |-> <<>>, WeightChange |-> 0,
     Rollback |-> FALSE, AllowedFailures |-> 0, FailureCounter |-> 0,
     toRollbackWeight |-> 0, fromRollbackWeight |-> 0, killChan |-> 0, pc |-> "none"]

\* NewSwitchover's error returns
NewSwitchoverErr(from, to, heap) ==
    \/ from = to
    \/ heap[from].Weigth < heap[to].Weigth

\* NewSwitchover's object; conditions is the list of the conditions' activeFor.
\* pc is the position of the goroutine that StartSwitchOver starts on it.
NewSwitchover(from, to, conditions, allowedFailures, weightChange, rollback) ==
    [From |-> from, To |-> to, Status |-> "Registered",
     Conditions |-> [i \in DOMAIN conditions |->
                       [ActiveFor |-> conditions[i], TriggerTime |-> Zero, Status |-> FALSE]],
     WeightChange |-> weightChange, Rollback |-> rollback,
     AllowedFailures |-> allowedFailures, FailureCounter |-> 0,
     toRollbackWeight |-> 0, fromRollbackWeight |-> 0, killChan |-> 0, pc |-> "go"]

\* Switchover.Stop, lines 72-74: the status it leaves
StopStatus(status) == IF status = "Running" THEN "Stopped" ELSE status

\* Stop restoring the weights whatever the status
StopRollsBackAlways(rollback, status) == rollback

\* Switchover.Stop, line 75: whether it restores the weights
StopRollsBack(rollback, status) == rollback /\ status = "Failed"

\* Switchover.Stop, lines 72-80, run on switchover s: status, weights,
\* distribution.  A panic of updateWeights leaves the caller before the send;
\* panicked' tells the caller.
StopBody(s, panics) ==
    LET so == switchover[s]
        status == StopStatus(so.Status)
        heap == [backend EXCEPT ![so.From].Weigth = UpdateWeight(so.fromRollbackWeight),
                                ![so.To].Weigth = UpdateWeight(so.toRollbackWeight)]
    IN  IF StopRollsBack(so.Rollback, status)
        THEN /\ backend' = heap
             /\ \E order \in Orders(Backends) :
                  LET u == updateWeights(order, heap)
                  IN  /\ SetDistr(u)
                      /\ panics = u.panic
        ELSE /\ panics = FALSE
             /\ UNCHANGED <<backend, NextTargetDistr, lenNextTargetDistr>>

\* ---------------------------------------------------- Switchover.Start loop
Loop(s, at) == ~crashed /\ switchover[s].pc = at

\* lines 86-88
Start(s) ==
    /\ Loop(s, "go")
    /\ switchover' = [switchover EXCEPT
            ![s].toRollbackWeight = backend[switchover[s].To].Weigth,
            ![s].fromRollbackWeight = backend[switchover[s].From].Weigth,
            ![s].Status = "Running",
            ![s].pc = "select"]
    /\ UNCHANGED <<Backends, backend, uuids, Strategy, HealthCheck, Switchover,
                   NextTargetDistr, lenNextTargetDistr, counter, admin, ret, crashed>>
    /\ UNCHANGED notRoute

\* lines 91-94: the select receives from killChan and Start returns
Killed(s) ==
    /\ Loop(s, "select")
    /\ switchover[s].killChan > 0
    /\ switchover' = [switchover EXCEPT ![s].killChan = 0, ![s].pc = "return"]
    /\ UNCHANGED <<Backends, backend, uuids, Strategy, HealthCheck, Switchover,
                   NextTargetDistr, lenNextTargetDistr, counter, admin, ret, crashed>>
    /\ UNCHANGED notRoute

Age(t, wait) == IF t = Zero THEN Zero ELSE IF t + wait > MaxAge THEN MaxAge ELSE t + wait

\* line 96: nothing is in killChan and the timer fires after `wait`
Timer(s, wait) ==
    /\ Loop(s, "select")
    /\ switchover[s].killChan = 0
    /\ switchover' = [switchover EXCEPT
            ![s].Conditions = [i \in DOMAIN @ |->
                                 [@[i] EXCEPT !.TriggerTime = Age(@, wait)]],
            ![s].pc = "cycle"]
    /\ UNCHANGED <<Backends, backend, uuids, Strategy, HealthCheck, Switchover,
                   NextTargetDistr, lenNextTargetDistr, counter, admin, ret, crashed>>
    /\ UNCHANGED notRoute

\* a condition latched by its first true evaluation
EvaluateLatchesAtOnce(condition, isTrue, active) ==
    IF isTrue /\ active
    THEN IF condition.TriggerTime = Zero
         THEN [condition EXCEPT !.TriggerTime = 0, !.Status = TRUE]
         ELSE [condition EXCEPT !.Status = TRUE]
    ELSE [condition EXCEPT !.TriggerTime = Zero, !.Status = FALSE]

\* lines 106-125: one condition after its evaluation; isTrue is
\* condition.IsTrue(metrics), active is s.To.Active
Evaluate(condition, isTrue, active) ==
    IF isTrue /\ active
    THEN IF condition.TriggerTime = Zero
         THEN [condition EXCEPT !.TriggerTime = 0]
         ELSE IF condition.ActiveFor < condition.TriggerTime
              THEN [condition EXCEPT !.Status = TRUE]
              ELSE condition
    ELSE [condition EXCEPT !.TriggerTime = Zero, !.Status = FALSE]

\* line 132: the condition that fails the cycle
CycleFailed(conditions) ==
    \E i \in DOMAIN conditions :
        ~conditions[i].Status /\ conditions[i].TriggerTime = Zero

\* a cap on the failures whatever allowedFailures is
FailuresCappedAlways(allowedFailures) == TRUE

\* line 139, left operand: allowedFailures of 0 caps nothing
FailuresCapped(allowedFailures) == allowedFailures > 0

\* failing once the counter reaches allowedFailures
TooManyFailuresReached(allowedFailures, failureCounter) ==
    allowedFailures > 0 /\ failureCounter >= allowedFailures

\* line 139
TooManyFailures(allowedFailures, failureCounter) ==
    FailuresCapped(allowedFailures) /\ failureCounter > allowedFailures

\* a skipped cycle that clears the conditions
SkippedClears(so) ==
    [so EXCEPT !.Conditions = [i \in DOMAIN @ |->
                                 [@[i] EXCEPT !.TriggerTime = Zero, !.Status = FALSE]],
               !.pc = "select"]

\* lines 100-103: ReadRatesOfBackend failed, the loop continues with its select
Skipped(so) == [so EXCEPT !.pc = "select"]

\* lines 98-147: err is the error of ReadRatesOfBackend, isTrue[i] the value of
\* the i-th condition on the rates read
Cycle(s, err, isTrue) ==
    /\ Loop(s, "cycle")
    /\ LET so == switchover[s]
           conditions == [i \in DOMAIN so.Conditions |->
                            Evaluate(so.Conditions[i], isTrue[i], backend[so.To].Active)]
       IN  IF err
           THEN switchover' = [switchover EXCEPT ![s] = Skipped(so)]
           ELSE IF CycleFailed(conditions)
           THEN /\ so.FailureCounter < MaxFailures
                /\ IF TooManyFailures(so.AllowedFailures, so.FailureCounter + 1)
                   THEN switchover' = [switchover EXCEPT
                            ![s].Conditions = conditions,
                            ![s].FailureCounter = @ + 1,
                            ![s].Status = "Failed",
                            ![s].pc = "stop"]
                   ELSE switchover' = [switchover EXCEPT
                            ![s].Conditions = conditions,
                            ![s].FailureCounter = @ + 1,
                            ![s].pc = "select"]
           ELSE switchover' = [switchover EXCEPT
                    ![s].Conditions = conditions,
                    ![s].pc = "update"]
    /\ UNCHANGED <<Backends, backend, uuids, Strategy, HealthCheck, Switchover,
                   NextTargetDistr, lenNextTargetDistr, counter, admin, ret, crashed>>
    /\ UNCHANGED notRoute

\* line 159
Successful(fromWeigth, toWeigth) == fromWeigth <= 0 \/ toWeigth >= 100

\* lines 149-150: the weights after one step
StepFrom(weigth, weightChange) == UpdateWeight(Uint8(weigth - weightChange))
StepTo(weigth, weightChange) == UpdateWeight(Uint8(weigth + weightChange))

\* lines 149-166 up to the call of Stop
Update(s) ==
    /\ Loop(s, "update")
    /\ LET so == switchover[s]
           heap == [backend EXCEPT
                      ![so.From].Weigth = StepFrom(@, so.WeightChange),
                      ![so.To].Weigth = StepTo(@, so.WeightChange)]
           reset == [i \in DOMAIN so.Conditions |->
                       [so.Conditions[i] EXCEPT !.TriggerTime = Zero, !.Status = FALSE]]
       IN  /\ backend' = heap
           /\ \E order \in Orders(Backends) :
                LET u == updateWeights(order, heap)
                IN  /\ SetDistr(u)
                    /\ crashed' = u.panic
                    /\ IF u.panic
                       THEN switchover' = [switchover EXCEPT ![s].pc = "panic"]
                       ELSE IF Successful(heap[so.From].Weigth, heap[so.To].Weigth)
                       THEN switchover' = [switchover EXCEPT
                                ![s].Conditions = reset,
                                ![s].Status = "Success",
                                ![s].pc = "stop"]
                       ELSE switchover' = [switchover EXCEPT
                                ![s].Conditions = reset,
                                ![s].pc = "select"]
    /\ UNCHANGED <<Backends, uuids, Strategy, HealthCheck, Switchover,
                   counter, admin, ret>>
    /\ UNCHANGED notRoute

\* lines 142 and 165: the loop's own s.Stop(), lines 72-80
LoopStop(s) ==
    /\ Loop(s, "stop")
    /\ \E panics \in BOOLEAN :
        /\ StopBody(s, panics)
        /\ crashed' = panics
        /\ switchover' = [switchover EXCEPT
                ![s].Status = StopStatus(@),
                ![s].pc = IF panics THEN "panic" ELSE "send"]
    /\ UNCHANGED <<Backends, uuids, Strategy, HealthCheck, Switchover,
                   counter, admin, ret>>
    /\ UNCHANGED notRoute

\* line 81 in the loop's own s.Stop(): the send waits for room in killChan
LoopSend(s) ==
    /\ Loop(s, "send")
    /\ switchover[s].killChan = 0
    /\ switchover' = [switchover EXCEPT ![s].killChan = 1, ![s].pc = "select"]
    /\ UNCHANGED <<Backends, backend, uuids, Strategy, HealthCheck, Switchover,
                   NextTargetDistr, lenNextTargetDistr, counter, admin, ret, crashed>>
    /\ UNCHANGED notRoute

\* ------------------------------------------------- Route: the switchover
\* an error return of StartSwitchOver before anything is written
Rejected(outcome) ==
    /\ ret' = outcome
    /\ UNCHANGED <<Backends, backend, uuids, Strategy, HealthCheck, Switchover,
                   NextTargetDistr, lenNextTargetDistr, switchover, counter, admin, crashed>>

\* lines 402-407: the backends the range loop can pick for an empty from
FromCandidates(to) ==
    {backend[id].Name : id \in {b \in Backends :
                                  backend[b].Name # to /\ backend[b].Weigth = 100}}

\* lines 412-418: the backend of the map with the name, 0 (nil) if there is none
FindBackend(name) ==
    IF \E id \in Backends : backend[id].Name = name
    THEN CHOOSE id \in Backends : backend[id].Name = name
    ELSE 0

\* lines 451-461: NewSwitchover on the heap the call has left so far, r.Switchover
\* and the goroutine
Create(from, to, heap, conditions, allowedFailures, weightChange, rollback) ==
    IF NewSwitchoverErr(from, to, heap)
    THEN /\ ret' = "error"
         /\ UNCHANGED <<Switchover, switchover, counter>>
    ELSE /\ counter' = counter + 1
         /\ switchover' = [switchover EXCEPT ![counter + 1] =
                NewSwitchover(from, to, conditions, allowedFailures, weightChange, rollback)]
         /\ Switchover' = counter + 1
         /\ ret' = "nil"

\* Route.StartSwitchOver
StartSwitchOver(from, to, conditions, allowedFailures, weightChange, force, rollback) ==
    /\ Idle
    /\ counter < MaxSwitchovers
    /\ IF Switchover # 0 /\ switchover[Switchover].Status = "Running"
       THEN Rejected("error")
       ELSE IF from = "" /\ FromCandidates(to) = {}
       THEN Rejected("error")
       ELSE \E f \in (IF from = "" THEN FromCandidates(to) ELSE {from}) :
         LET fromBackend == FindBackend(f)
             toBackend == IF to = f THEN 0 ELSE FindBackend(to)
         IN  IF fromBackend = 0 \/ toBackend = 0
             THEN Rejected("error")
             ELSE IF force
             THEN LET heap == [backend EXCEPT
                                 ![fromBackend].Weigth = Uint8(100 - weightChange),
                                 ![toBackend].Weigth = weightChange]
                  IN  /\ Strategy' = "sticky"
                      /\ backend' = heap
                      /\ \E order \in Orders(Backends) :
                           LET u == updateWeights(order, heap)
                           IN  /\ SetDistr(u)
                               /\ IF u.panic
                                  THEN /\ ret' = "panic"
                                       /\ UNCHANGED <<Switchover, switchover, counter>>
                                  ELSE Create(fromBackend, toBackend, heap, conditions,
                                              allowedFailures, weightChange, rollback)
                      /\ UNCHANGED <<Backends, uuids, HealthCheck, admin, crashed>>
             ELSE IF Strategy = "nil"
             THEN Rejected("panic")
             ELSE IF Strategy # "sticky" /\ Strategy # "slippery"
             THEN Rejected("error")
             ELSE /\ Create(fromBackend, toBackend, backend, conditions,
                            allowedFailures, weightChange, rollback)
                  /\ UNCHANGED <<Backends, backend, uuids, Strategy, HealthCheck,
                                 NextTargetDistr, lenNextTargetDistr, admin, crashed>>
    /\ UNCHANGED notRoute

\* Route.RemoveSwitchOver up to the send of Stop: lines 466-468 and 72-80
RemoveSwitchOver ==
    /\ Idle
    /\ IF Switchover = 0
       THEN Rejected("nil")
       ELSE \E panics \in BOOLEAN :
            /\ StopBody(Switchover, panics)
            /\ switchover' = [switchover EXCEPT ![Switchover].Status = StopStatus(@)]
            /\ admin' = IF panics THEN admin ELSE [pc |-> "send", s |-> Switchover]
            /\ ret' = IF panics THEN "panic" ELSE ret
            /\ UNCHANGED <<Backends, uuids, Strategy, HealthCheck, Switchover,
                           counter, crashed>>
    /\ UNCHANGED notRoute

\* Route.RemoveSwitchOver from the send of Stop: lines 81 and 469
RemoveSwitchOverSend ==
    /\ ~crashed
    /\ admin.pc = "send"
    /\ switchover[admin.s].killChan = 0
    /\ switchover' = [switchover EXCEPT ![admin.s].killChan = 1]
    /\ Switchover' = 0
    /\ admin' = [pc |-> "idle", s |-> 0]
    /\ ret' = "nil"
    /\ UNCHANGED <<Backends, backend, uuids, Strategy, HealthCheck,
                   NextTargetDistr, lenNextTargetDistr, counter, crashed>>
    /\ UNCHANGED notRoute

\* ------------------------------------------------ metrics: Repository.Monitor
\* a monitor goroutine of backend id stands at `at`
AtMonitor(id, at) == ~crashed /\ monitoredBackend[id].pc = at

\* line 229: the goroutine begins; an id that is no longer in m.Backends ends it
MonitorStart(id) ==
    /\ AtMonitor(id, "go")
    /\ monitoredBackend' = [monitoredBackend EXCEPT
            ![id].pc = IF id \in repoBackends THEN "select" ELSE "return"]
    /\ UNCHANGED <<coreVars, InChannel, repoBackends, repository, tree, preAdd, lastHandle, response, scrapeVars, rateVars, selection, listen>>

\* lines 233-237: the select takes the stop signal if there is one, else default
MonitorSelect(id) ==
    /\ AtMonitor(id, "select")
    /\ monitoredBackend' = [monitoredBackend EXCEPT
            ![id].stopMonitoring = 0,
            ![id].pc = IF monitoredBackend[id].stopMonitoring > 0 THEN "return" ELSE "default"]
    /\ UNCHANGED <<coreVars, InChannel, repoBackends, repository, tree, preAdd, lastHandle, response, scrapeVars, rateVars, selection, listen>>

\* line 279: now.After(alert.StartTime.Add(activeFor)) && alert.SendTime.IsZero()
SendsAlarm(alert, activeFor) == alert.StartTime > activeFor /\ alert.SendTime = Zero

\* lines 293-295: EndTime after the first lines of the false branch
EndTimeSet(alert) == IF alert.EndTime = Zero THEN 0 ELSE alert.EndTime

\* line 297: time.Now().After(alert.EndTime.Add(activeFor))
Resolves(alert, activeFor) == EndTimeSet(alert) > activeFor

\* lines 266-325: the alert of the condition after its evaluation, up to a send
Evaluated(alert, activeFor, isReached) ==
    IF alert.Type # "none"
    THEN IF isReached
         THEN IF SendsAlarm(alert, activeFor)
              THEN [alert EXCEPT !.Type = "Alarming", !.SendTime = 0]
              ELSE alert
         ELSE IF Resolves(alert, activeFor)
              THEN [alert EXCEPT !.Type = "Resolved", !.EndTime = EndTimeSet(alert)]
              ELSE [alert EXCEPT !.EndTime = EndTimeSet(alert)]
    ELSE IF isReached THEN NewAlert ELSE alert

\* lines 283, 300, 322: the evaluation goes on to send the alert
Sends(alert, activeFor, isReached) ==
    IF alert.Type # "none"
    THEN IF isReached THEN SendsAlarm(alert, activeFor) ELSE Resolves(alert, activeFor)
    ELSE isReached

\* history: the time for which the condition has kept the value `now`, given
\* that time for the ticks before
Kept(for, now) == IF ~now THEN Zero ELSE IF for = Zero THEN 0 ELSE for

\* lines 240-325, one tick: err is the error of ReadRatesOfBackend, isReached the
\* value of condition.IsTrue on the rates read
MonitorTick(id, err, isReached) ==
    /\ AtMonitor(id, "default")
    /\ LET b == monitoredBackend[id]
           alert == Evaluated(b.alert, b.ActiveFor, isReached)
       IN  IF err
           THEN monitoredBackend' = [monitoredBackend EXCEPT ![id].pc = "sleep"]
           ELSE monitoredBackend' = [monitoredBackend EXCEPT
                    ![id].alert = alert,
                    ![id].trueFor = Kept(@, isReached),
                    ![id].falseFor = Kept(@, ~isReached),
                    ![id].out = IF Sends(b.alert, b.ActiveFor, isReached) THEN alert ELSE NoAlert,
                    ![id].pc = IF Sends(b.alert, b.ActiveFor, isReached) THEN "send" ELSE "sleep"]
    /\ UNCHANGED <<coreVars, InChannel, repoBackends, repository, tree, preAdd, lastHandle, response, scrapeVars, rateVars, selection, listen>>

\* lines 283, 300-301, 322: backend.AlertChannel <- *alert has no buffer, it waits
\* for a receiver; a Resolved alert is deleted from activeAlerts after it
MonitorSend(id) ==
    /\ AtMonitor(id, "send")
    /\ monitoredBackend[id].receiver
    /\ monitoredBackend' = [monitoredBackend EXCEPT
            ![id].alert = IF monitoredBackend[id].out.Type = "Resolved" THEN NoAlert ELSE @,
            ![id].out = NoAlert,
            ![id].sent = monitoredBackend[id].out.Type,
            ![id].pc = "sleep"]
    /\ UNCHANGED <<coreVars, InChannel, repoBackends, repository, tree, preAdd, lastHandle, response, scrapeVars, rateVars, selection, listen>>

\* a time after `wait` more has passed
Later(t, wait) ==
    IF t = Zero THEN Zero ELSE IF t + wait > MaxAlertAge THEN MaxAlertAge ELSE t + wait

\* line 328 (and 245): time.Sleep(timeout), the loop leaves it after `wait`
MonitorSleep(id, wait) ==
    /\ AtMonitor(id, "sleep")
    /\ monitoredBackend' = [monitoredBackend EXCEPT
            ![id].alert = [@ EXCEPT !.StartTime = Later(@, wait), !.EndTime = Later(@, wait)],
            ![id].trueFor = Later(@, wait),
            ![id].falseFor = Later(@, wait),
            ![id].pc = "select"]
    /\ UNCHANGED <<coreVars, InChannel, repoBackends, repository, tree, preAdd, lastHandle, response, scrapeVars, rateVars, selection, listen>>

\* ------------------------------------------------------ metrics: scrapeJob
\* lines of a scrape body and failed scrapes in a row that are looked at
MaxLines == 2
MaxErrors == 2

\* A line of a scrape body is the sequence strings.Split(line, " ") makes of
\* it: "# n 1" is a comment row, "n" a row without value, "" an empty row.
ScrapeLines ==
    {<<"#", "n", "1">>, <<"n", "1">>, <<"n", "2">>, <<"m", "x">>, <<"n">>, <<"">>}

\* bodies of at most MaxLines lines
RECURSIVE ScrapeBodies(_)
ScrapeBodies(len) ==
    IF len = 0 THEN {<<>>}
    ELSE ScrapeBodies(len - 1) \cup
         {Append(body, line) : body \in {b \in ScrapeBodies(len - 1) : Len(b) = len - 1},
                               line \in ScrapeLines}

\* instance.ScrapeMetrics: the metric names to extract
ScrapeNames == {<<>>, <<"n">>, <<"m">>, <<"n", "m">>, <<"m", "n">>}

\* parseFloat on the value tokens above: "x" is no number
parseFloat(str) ==
    IF str = "1" THEN [value |-> 1, err |-> FALSE]
    ELSE IF str = "2" THEN [value |-> 2, err |-> FALSE]
    ELSE [value |-> 0, err |-> TRUE]

\* getRowFromBody(body, pattern): the value and error it returns; panic is the
\* index out of range of substrings[1] on a row that has only the pattern
RECURSIVE getRowFromBody(_, _)
getRowFromBody(body, pattern) ==
    IF body = <<>>
    THEN [value |-> -1, err |-> TRUE, panic |-> FALSE]
    ELSE LET substrings == Head(body)
         IN  IF substrings[1] = "#"
             THEN getRowFromBody(Tail(body), pattern)
             ELSE IF substrings[1] = pattern
             THEN IF Len(substrings) < 2
                  THEN [value |-> -1, err |-> TRUE, panic |-> TRUE]
                  ELSE IF parseFloat(substrings[2]).err
                  THEN [value |-> -1, err |-> TRUE, panic |-> FALSE]
                  ELSE [value |-> parseFloat(substrings[2]).value, err |-> FALSE,
                        panic |-> FALSE]
             ELSE getRowFromBody(Tail(body), pattern)

\* the instances that are scraped, before their first scrape
ScrapeInstances == [body : ScrapeBodies(MaxLines), ScrapeMetrics : ScrapeNames, Errors : {0}]

\* no backend has a ScrapeURL: nothing is scraped
NoScrape ==
    /\ instance = [body |-> <<>>, ScrapeMetrics |-> <<>>, Errors |-> 0]
    /\ scrapeMetricsChannel = <<>>

\* Repository.scrapeJob(instance).  err: m.client.Do fails.  Otherwise every
\* name of instance.ScrapeMetrics gets the value getRowFromBody returns,
\* whatever its error, and the map is sent; a panic of getRowFromBody ends the
\* process.
scrapeJob(err) ==
    /\ ~crashed
    /\ IF err
       THEN /\ instance.Errors < MaxErrors
            /\ instance' = [instance EXCEPT !.Errors = @ + 1]
            /\ UNCHANGED <<scrapeMetricsChannel, crashed>>
       ELSE LET names == {instance.ScrapeMetrics[i] : i \in DOMAIN instance.ScrapeMetrics}
            IN  /\ instance' = [instance EXCEPT !.Errors = 0]
                /\ IF \E name \in names : getRowFromBody(instance.body, name).panic
                   THEN /\ crashed' = TRUE
                        /\ UNCHANGED scrapeMetricsChannel
                   ELSE /\ scrapeMetricsChannel' =
                             <<[name \in names |-> getRowFromBody(instance.body, name).value]>>
                        /\ UNCHANGED crashed
    /\ UNCHANGED <<Backends, backend, uuids, Strategy, HealthCheck, Switchover,
                   NextTargetDistr, lenNextTargetDistr, switchover, counter, admin, ret>>
    /\ UNCHANGED <<InChannel, repoVars, tree, preAdd, lastHandle, response, rateVars, selection, listen>>

\* --------------------------------------------- metrics: ReadRatesOfBackend
\* responses of one status class in a window that are looked at
MaxResponses == 2

\* the status classes of a window aggregate and the rate keys made of them
StatusClasses == {"200", "300", "400", "500", "600"}

RateKey(class) ==
    IF class = "200" THEN "2xxRate"
    ELSE IF class = "300" THEN "3xxRate"
    ELSE IF class = "400" THEN "4xxRate"
    ELSE IF class = "500" THEN "5xxRate"
    ELSE "6xxRate"

RateKeys == {RateKey(class) : class \in StatusClasses}

RECURSIVE SumOver(_, _)
SumOver(f, keys) ==
    IF keys = {} THEN 0
    ELSE LET k == CHOOSE x \in keys : TRUE IN f[k] + SumOver(f, keys \ {k})

\* The aggregates Storage.ReadBackend returns: integer counters per status
\* class, TotalResponses their sum.
WindowAggregates ==
    {[TotalResponses |-> SumOver(c, StatusClasses), ResponseStatus |-> c] :
        c \in [StatusClasses -> 0..MaxResponses]}

\* no window has been read
NoRates ==
    /\ current = [TotalResponses |-> 0, ResponseStatus |-> [class \in StatusClasses |-> 0]]
    /\ metricRates = <<>>

\* Repository.ReadRatesOfBackend(backend, start, end).  err: ReadBackend fails
\* and nil is returned.  Otherwise a TotalResponses of 0 is replaced by 1 and
\* every rate is the integer quotient of the two integer counters, converted to
\* float64 after the division.  ResponseTime, ContentLength and the custom
\* metrics are copied as they are.
ReadRatesOfBackend(err) ==
    /\ ~crashed
    /\ IF err
       THEN metricRates' = <<>>
       ELSE LET TotalResponses ==
                    IF current.TotalResponses = 0 THEN 1 ELSE current.TotalResponses
            IN  metricRates' =
                    <<[key \in RateKeys |->
                        LET class == CHOOSE c \in StatusClasses : RateKey(c) = key
                        IN  current.ResponseStatus[class] \div TotalResponses]>>
    /\ UNCHANGED <<coreVars, InChannel, repoVars, tree, preAdd, lastHandle, response,
                   scrapeVars, current, selection, listen>>

\* --------------------------------------------------- metrics: Repository.Stop
\* calls of Repository.Stop that are made
MaxStops == 2

\* NewMetricsRepository, lines 125-126, with the loops of Listen and jobLoop
\* running, and nobody inside Stop
\*   shutdown, stopScraping   the channels of capacity 2: number of values in them
\*   Listen, jobLoop          "run" or "return"
\*   Stop                     position of the caller of Stop(): "none", at one of
\*                            its sends, or "return"
\*   todo, cur                backends the range loop of Stop has still to
\*                            visit, and the one it stands at (0: none)
\*   stops                    calls of Stop() so far
NewMetricsRepository ==
    [shutdown |-> 0, stopScraping |-> 0, Listen |-> "run", jobLoop |-> "run",
     Stop |-> "none", todo |-> {}, cur |-> 0, stops |-> 0]

\* Repository.Stop is called
RepositoryStop ==
    /\ ~crashed
    /\ repository.Stop \in {"none", "return"}
    /\ repository.stops < MaxStops
    /\ repository' = [repository EXCEPT !.Stop = "shutdown", !.stops = @ + 1]
    /\ UNCHANGED <<coreVars, InChannel, repoBackends, monitoredBackend, tree, preAdd, lastHandle, response, scrapeVars, rateVars, selection, listen>>

\* line 192: m.shutdown <- 1
StopShutdown ==
    /\ ~crashed
    /\ repository.Stop = "shutdown"
    /\ repository.shutdown < 2
    /\ repository' = [repository EXCEPT !.shutdown = @ + 1, !.Stop = "stopScraping"]
    /\ UNCHANGED <<coreVars, InChannel, repoBackends, monitoredBackend, tree, preAdd, lastHandle, response, scrapeVars, rateVars, selection, listen>>

\* line 193: m.stopScraping <- 1, then the range over m.Backends begins
StopScraping ==
    /\ ~crashed
    /\ repository.Stop = "stopScraping"
    /\ repository.stopScraping < 2
    /\ repository' = [repository EXCEPT
            !.stopScraping = @ + 1, !.Stop = "stopMonitoring", !.todo = repoBackends]
    /\ UNCHANGED <<coreVars, InChannel, repoBackends, monitoredBackend, tree, preAdd, lastHandle, response, scrapeVars, rateVars, selection, listen>>

\* line 195: the range loop comes to backend id
StopRange(id) ==
    /\ ~crashed
    /\ repository.Stop = "stopMonitoring"
    /\ repository.cur = 0
    /\ id \in repository.todo
    /\ repository' = [repository EXCEPT !.cur = id, !.todo = @ \ {id}]
    /\ UNCHANGED <<coreVars, InChannel, repoBackends, monitoredBackend, tree, preAdd, lastHandle, response, scrapeVars, rateVars, selection, listen>>

\* line 196: b.stopMonitoring <- 1
StopMonitoring ==
    /\ ~crashed
    /\ repository.Stop = "stopMonitoring"
    /\ repository.cur # 0
    /\ StopMonitoringHasRoom(repository.cur)
    /\ monitoredBackend' = [monitoredBackend EXCEPT ![repository.cur].stopMonitoring = 1]
    /\ repository' = [repository EXCEPT !.cur = 0]
    /\ UNCHANGED <<coreVars, InChannel, repoBackends, tree, preAdd, lastHandle, response, scrapeVars, rateVars, selection, listen>>

\* line 198: the range loop is over, m.Storage.Stop(), return
StopReturn ==
    /\ ~crashed
    /\ repository.Stop = "stopMonitoring"
    /\ repository.cur = 0
    /\ repository.todo = {}
    /\ repository' = [repository EXCEPT !.Stop = "return"]
    /\ UNCHANGED <<coreVars, InChannel, repoBackends, monitoredBackend, tree, preAdd, lastHandle, response, scrapeVars, rateVars, selection, listen>>

\* Repository.Listen, lines 402-403: the select receives from m.shutdown
Listen ==
    /\ ~crashed
    /\ repository.Listen = "run"
    /\ repository.shutdown > 0
    /\ repository' = [repository EXCEPT !.shutdown = @ - 1, !.Listen = "return"]
    /\ UNCHANGED <<coreVars, InChannel, repoBackends, monitoredBackend, tree, preAdd, lastHandle, response, scrapeVars, rateVars, selection, listen>>

\* Repository.jobLoop, lines 464-465: the select receives from m.stopScraping
jobLoop ==
    /\ ~crashed
    /\ repository.jobLoop = "run"
    /\ repository.stopScraping > 0
    /\ repository' = [repository EXCEPT !.stopScraping = @ - 1, !.jobLoop = "return"]
    /\ UNCHANGED <<coreVars, InChannel, repoBackends, monitoredBackend, tree, preAdd, lastHandle, response, scrapeVars, rateVars, selection, listen>>

\* ------------------------------------------------------------------- Router
\* methods and prefixes a caller passes; a prefix is its sequence of characters
RouterMethods == {"", "get", "GET", "POST"}
RouterPrefixes == {<<>>, <<"a">>, <<"/", "a">>, <<"/", "a", "/", "b">>}
\* handlers: 0 is no handler
MaxHandlers == 2
RouterHandlers == 1..MaxHandlers

\* strings.ToUpper on the methods above
ToUpper(method) == IF method = "get" THEN "GET" ELSE method

\* the keys r.tree can get
TreeMethods == {ToUpper(method) : method \in RouterMethods} \ {""}

\* NewRouter: r.tree is an empty map.  tree[method].exists is r.tree[method] != nil,
\* tree[method].handles the radix tree: prefix -> handler, 0 where there is no entry
NewRouter ==
    [method \in TreeMethods |->
        [exists |-> FALSE, handles |-> [prefix \in RouterPrefixes |-> 0]]]

\* the handler registered under method and prefix in r.tree, 0 for none
Handle(method, prefix) ==
    IF method \in TreeMethods /\ prefix \in RouterPrefixes
    THEN tree[method].handles[prefix] ELSE 0

\* history before the first call of AddHandler
NoHandle == [method |-> "", prefix |-> <<>>, handler |-> 0, before |-> 0]

\* CheckIfHandleExists without the Get of line 58
CheckIfHandleExistsNoGet(method, prefix) ==
    IF method = "" \/ prefix = <<>> \/ prefix[1] # "/"
    THEN [exists |-> FALSE, err |-> TRUE, tree |-> tree]
    ELSE IF ~tree[method].exists
    THEN [exists |-> FALSE, err |-> FALSE, tree |-> [tree EXCEPT ![method].exists = TRUE]]
    ELSE [exists |-> FALSE, err |-> FALSE, tree |-> tree]

\* Router.CheckIfHandleExists: what it returns (exists, err != nil) and the map
\* it leaves
CheckIfHandleExists(method, prefix) ==
    IF method = "" \/ prefix = <<>> \/ prefix[1] # "/"
    THEN [exists |-> FALSE, err |-> TRUE, tree |-> tree]
    ELSE IF ~tree[method].exists
    THEN [exists |-> FALSE, err |-> FALSE, tree |-> [tree EXCEPT ![method].exists = TRUE]]
    ELSE IF tree[method].handles[prefix] # 0
    THEN [exists |-> TRUE, err |-> TRUE, tree |-> tree]
    ELSE [exists |-> FALSE, err |-> FALSE, tree |-> tree]

\* Router.AddHandler
AddHandler(method, prefix, handler) ==
    /\ ~crashed
    /\ LET httpMethod == ToUpper(method)
           check == CheckIfHandleExists(httpMethod, prefix)
       IN  /\ IF check.err
              THEN /\ tree' = check.tree
                   /\ ret' = "error"
              ELSE /\ tree' = [check.tree EXCEPT ![httpMethod].handles[prefix] = handler]
                   /\ ret' = IF check.tree[httpMethod].handles[prefix] # 0 THEN "error" ELSE "nil"
           /\ lastHandle' = [method |-> httpMethod, prefix |-> prefix, handler |-> handler,
                             before |-> Handle(httpMethod, prefix)]
    /\ UNCHANGED <<Backends, backend, uuids, Strategy, HealthCheck, Switchover,
                   NextTargetDistr, lenNextTargetDistr, switchover, counter, admin, crashed>>
    /\ UNCHANGED <<InChannel, repoVars, preAdd, response, scrapeVars, rateVars, selection, listen>>

\* Router.RemoveHandle.  With err == nil the handle does not exist; with an error
\* of whatever kind Delete is called on r.tree[httpMethod], a nil pointer when
\* there is no tree for the method.
RemoveHandle(method, prefix) ==
    /\ ~crashed
    /\ LET httpMethod == ToUpper(method)
           check == CheckIfHandleExists(httpMethod, prefix)
       IN  IF ~check.err
           THEN /\ tree' = check.tree
                /\ ret' = "error"
           ELSE IF httpMethod \notin TreeMethods \/ ~tree[httpMethod].exists
           THEN /\ ret' = "panic"
                /\ UNCHANGED tree
           ELSE /\ tree' = [tree EXCEPT ![httpMethod].handles[prefix] = 0]
                /\ ret' = IF tree[httpMethod].handles[prefix] # 0 THEN "nil" ELSE "error"
    /\ UNCHANGED <<Backends, backend, uuids, Strategy, HealthCheck, Switchover,
                   NextTargetDistr, lenNextTargetDistr, switchover, counter, admin, crashed>>
    /\ UNCHANGED <<InChannel, repoVars, preAdd, lastHandle, response, scrapeVars, rateVars, selection, listen>>

\* paths of the requests ServeHTTP gets
RouterPaths == {<<"/">>, <<"/", "a">>, <<"/", "a", "b">>, <<"/", "a", "/", "b">>,
                <<"/", "a", "/", "b", "c">>, <<"/", "b">>}

\* what the handler a request is given to does: it returns, it panics with a
\* value that is an error, or it panics with another value (a string)
HandlerBehaviours == {"return", "panic error", "panic string"}

\* no request served yet.  handler: the registered handler that was invoked (0:
\* none); NotFoundHandler, ErrorHandler: calls of r.NotFoundHandler and
\* r.ErrorHandler; panic: a panic left ServeHTTP
NoResponse ==
    [method |-> "", path |-> <<>>, handler |-> 0, NotFoundHandler |-> 0,
     ErrorHandler |-> 0, panic |-> FALSE]

\* prefix is a prefix of path
HasPrefix(path, prefix) ==
    /\ Len(prefix) <= Len(path)
    /\ \A i \in 1..Len(prefix) : path[i] = prefix[i]

\* the keys of the radix tree of method that are a prefix of path
Matches(method, path) ==
    {prefix \in RouterPrefixes : tree[method].handles[prefix] # 0 /\ HasPrefix(path, prefix)}

\* LongestPrefix that takes the shortest key
ShortestPrefix(method, path) ==
    CHOOSE prefix \in Matches(method, path) :
        \A other \in Matches(method, path) : Len(prefix) <= Len(other)

\* radix Tree.LongestPrefix(path) when found: the longest key that is a prefix
\* of path
LongestPrefix(method, path) ==
    CHOOSE prefix \in Matches(method, path) :
        \A other \in Matches(method, path) : Len(other) <= Len(prefix)

\* Router.ServeHTTP on a request with this method and path; behaviour is what
\* the handler does when it is invoked.  The deferred function recovers a
\* panic and calls r.ErrorHandler(w, req, err.(error)): the type assertion
\* panics itself when the recovered value is not an error.
ServeHTTP(method, path, behaviour) ==
    /\ ~crashed
    /\ LET found == /\ method \in TreeMethods
                    /\ tree[method].exists
                    /\ Matches(method, path) # {}
       IN  response' =
             IF ~found
             THEN [NoResponse EXCEPT !.method = method, !.path = path,
                                     !.NotFoundHandler = 1]
             ELSE [NoResponse EXCEPT
                     !.method = method, !.path = path,
                     !.handler = tree[method].handles[LongestPrefix(method, path)],
                     !.ErrorHandler = IF behaviour = "panic error" THEN 1 ELSE 0,
                     !.panic = (behaviour = "panic string")]
    /\ UNCHANGED <<coreVars, InChannel, repoVars, tree, preAdd, lastHandle,
                   scrapeVars, rateVars, selection, listen>>

\* ------------------------------------------------------------ specification
TypeOK ==
    /\ Backends \subseteq 1..uuids
    /\ uuids \in 0..MaxBackends
    /\ counter \in 0..MaxSwitchovers
    /\ Switchover \in 0..counter
    /\ ret \in {"nil", "error", "panic"}
    /\ \A id \in BackendIDs : backend[id].Weigth \in 0..255

\* ---------------------------------------------------------------------------
\* Repository.Listen (metrics.go 337-406): the two channels and the store
\* measurements sent to m.InChannel, scrape results sent to the scrape channel
MaxMeasurements == 2
MaxScrapes == 2

\* The Listen loop with what it consumes and produces.
\*   metricsQueue  the Metrics values on m.InChannel: [BackendID, n], n numbers
\*                 the measurements in the order they were sent
\*   scrapeQueue   the ScrapeMetrics values on m.scrapeMetricsChannel:
\*                 [BackendID, Metrics], a scrape map being a number from 1,
\*                 0 the empty map
\*   ScrapeMetricPuffer  the field of every MonitoredBackend object
\*   pc, metrics   "select", or "lookup": the map read of line 378 for the
\*                 measurement `metrics` is in progress
\*   Update        the measurements whose goroutine of line 351 has not run
\*   Updated       the measurements PromMetrics.Update was applied to, in order
\*   Write         the calls of Storage.Write, in order
\*   delete        the key RemoveBackend's delete of line 180 is removing, or 0
\*   sent          number of measurements sent so far
\*   scraped       the scrape maps sent so far
\*   dequeued      history: the measurements Listen has received, in order
\*   last          history: per backend the scrape map Listen received last
NoListen ==
    [metricsQueue |-> <<>>, scrapeQueue |-> <<>>,
     ScrapeMetricPuffer |-> [id \in BackendIDs |-> 0],
     pc |-> "select", metrics |-> [BackendID |-> 0, n |-> 0],
     Update |-> {}, Updated |-> <<>>, Write |-> <<>>, delete |-> 0,
     sent |-> 0, scraped |-> {}, dequeued |-> <<>>, last |-> [id \in BackendIDs |-> 0]]

\* Strategy handler and health check: `r.MetricsRepo.InChannel <- metrics` of a
\* request to the backend backendID, which may have been removed meanwhile
SendMetrics(backendID) ==
    /\ ~crashed
    /\ listen.sent < MaxMeasurements
    /\ listen' = [listen EXCEPT
            !.sent = @ + 1,
            !.metricsQueue = Append(@, [BackendID |-> backendID, n |-> listen.sent + 1])]
    /\ UNCHANGED <<coreVars, InChannel, repoVars, tree, preAdd, lastHandle, response,
                   scrapeVars, rateVars, selection>>

\* scrapeJob, line 454: a scrape goroutine started by jobLoop on the instance
\* backendID sends its map.  The maps are numbered in the order in which their
\* goroutines were started; the goroutines finish in any order.
SendScrapeMetrics(backendID, Metrics) ==
    /\ ~crashed
    /\ Metrics \notin listen.scraped
    /\ listen' = [listen EXCEPT
            !.scraped = @ \cup {Metrics},
            !.scrapeQueue = Append(@, [BackendID |-> backendID, Metrics |-> Metrics])]
    /\ UNCHANGED <<coreVars, InChannel, repoVars, tree, preAdd, lastHandle, response,
                   scrapeVars, rateVars, selection>>

\* Listen, lines 345-378: a measurement is received, the goroutine of
\* PromMetrics.Update is started, the gauges are set, the map read begins
ListenMetrics ==
    /\ ~crashed
    /\ listen.pc = "select"
    /\ listen.metricsQueue # <<>>
    /\ listen' = [listen EXCEPT
            !.metricsQueue = Tail(@),
            !.metrics = Head(listen.metricsQueue),
            !.dequeued = Append(@, Head(listen.metricsQueue).n),
            !.Update = @ \cup {Head(listen.metricsQueue).n},
            !.pc = "lookup"]
    /\ UNCHANGED <<coreVars, InChannel, repoVars, tree, preAdd, lastHandle, response,
                   scrapeVars, rateVars, selection>>

\* the goroutine of line 351
PromMetricsUpdate(n) ==
    /\ ~crashed
    /\ n \in listen.Update
    /\ listen' = [listen EXCEPT !.Update = @ \ {n}, !.Updated = Append(@, n)]
    /\ UNCHANGED <<coreVars, InChannel, repoVars, tree, preAdd, lastHandle, response,
                   scrapeVars, rateVars, selection>>

\* What the map read of line 378 may yield for backendID: the entry or its
\* absence; while delete(m.Backends, backendID) runs, the read races with it
\* and yields either, or the runtime ends the process ("concurrent map read
\* and map write")
Lookups(backendID) ==
    IF listen.delete = backendID THEN {"found", "missing", "fatal"}
    ELSE IF backendID \in repoBackends THEN {"found"}
    ELSE {"missing"}

\* the arguments of Storage.Write, lines 385-394: the measurement and the
\* backend's ScrapeMetricPuffer (never nil: RegisterBackend makes the map)
StorageWrite(metrics, scrapeMetrics) ==
    [BackendID |-> metrics.BackendID, n |-> metrics.n, scrapeMetrics |-> scrapeMetrics]

\* Listen, lines 378-395
ListenWrite(found) ==
    /\ ~crashed
    /\ listen.pc = "lookup"
    /\ found \in Lookups(listen.metrics.BackendID)
    /\ crashed' = (found = "fatal")
    /\ listen' = [listen EXCEPT
            !.pc = "select",
            !.Write = IF found = "found"
                      THEN Append(@, StorageWrite(listen.metrics,
                                      listen.ScrapeMetricPuffer[listen.metrics.BackendID]))
                      ELSE @]
    /\ UNCHANGED <<Backends, backend, uuids, Strategy, HealthCheck, Switchover,
                   NextTargetDistr, lenNextTargetDistr, switchover, counter, admin, ret>>
    /\ UNCHANGED <<InChannel, repoVars, tree, preAdd, lastHandle, response,
                   scrapeVars, rateVars, selection>>

\* a puffer that keeps the first map it was given
PufferKeepsFirst(old, Metrics) == IF old = 0 THEN Metrics ELSE old
\* line 400: the assignment replaces the map of the backend, whatever it was
Puffer(old, Metrics) == Metrics

\* Listen, lines 397-400: m.Backends[id] is nil for an id that is not in the
\* map, and the assignment to its field panics in the Listen goroutine
ListenScrapeMetrics(found) ==
    /\ ~crashed
    /\ listen.pc = "select"
    /\ listen.scrapeQueue # <<>>
    /\ found \in Lookups(Head(listen.scrapeQueue).BackendID)
    /\ crashed' = (found # "found")
    /\ LET scrapeMetrics == Head(listen.scrapeQueue)
       IN  listen' = [listen EXCEPT
               !.scrapeQueue = Tail(@),
               !.last[scrapeMetrics.BackendID] = scrapeMetrics.Metrics,
               !.ScrapeMetricPuffer[scrapeMetrics.BackendID] =
                    IF found = "found" THEN Puffer(@, scrapeMetrics.Metrics) ELSE @]
    /\ UNCHANGED <<Backends, backend, uuids, Strategy, HealthCheck, Switchover,
                   NextTargetDistr, lenNextTargetDistr, switchover, counter, admin, ret>>
    /\ UNCHANGED <<InChannel, repoVars, tree, preAdd, lastHandle, response,
                   scrapeVars, rateVars, selection>>

\* RemoveBackend, lines 173-180: the key is found, the stop signal is sent
\* (the channel has room), the delete begins
RemoveBackendSignal(backendID) ==
    /\ ~crashed
    /\ listen.delete = 0
    /\ backendID \in repoBackends
    /\ StopMonitoringHasRoom(backendID)
    /\ monitoredBackend' = [monitoredBackend EXCEPT ![backendID].stopMonitoring = 1]
    /\ listen' = [listen EXCEPT !.delete = backendID]
    /\ UNCHANGED <<coreVars, InChannel, repoBackends, repository, tree, preAdd,
                   lastHandle, response, scrapeVars, rateVars, selection>>

\* RemoveBackend, lines 180-182: the delete is done
RemoveBackendDelete ==
    /\ ~crashed
    /\ listen.delete # 0
    /\ repoBackends' = repoBackends \ {listen.delete}
    /\ listen' = [listen EXCEPT !.delete = 0]
    /\ UNCHANGED <<coreVars, InChannel, monitoredBackend, repository, tree, preAdd,
                   lastHandle, response, scrapeVars, rateVars, selection>>

\* The state outside the route: no measurement written, the repository with the
\* backends `registered` (their Monitor loops running), an empty router
InitOutside(registered) ==
    /\ InChannel = <<>>
    /\ repoBackends = registered
    /\ monitoredBackend = [id \in BackendIDs |->
            IF id \in registered
            THEN [NewMonitoredBackend(1) EXCEPT !.pc = "select"]
            ELSE NoMonitoredBackend]
    /\ repository = NewMetricsRepository
    /\ tree = NewRouter
    /\ preAdd = [id |-> 0, distr |-> <<>>]
    /\ lastHandle = NoHandle
    /\ response = NoResponse
    /\ NoScrape
    /\ NoRates
    /\ selection = NoSelection
    /\ listen = NoListen

\* Route.New: an empty route without strategy
InitRoute ==
    /\ Backends = {}
    /\ backend = [id \in BackendIDs |-> NoBackend]
    /\ uuids = 0
    /\ Strategy = "nil"
    /\ HealthCheck \in BOOLEAN
    /\ Switchover = 0
    /\ NextTargetDistr = <<>>
    /\ lenNextTargetDistr = 0
    /\ switchover = [s \in SwitchoverIDs |-> NoSwitchover]
    /\ counter = 0
    /\ admin = [pc |-> "idle", s |-> 0]
    /\ ret = "nil"
    /\ crashed = FALSE
    /\ InitOutside({})

\* A route in service with health checks: after AddBackend("a", 100),
\* AddBackend("b", 0), SetStrategy, Reload and the first health checks passed
Init ==
    /\ Backends = {1, 2}
    /\ backend = [id \in BackendIDs |->
                    IF id = 1 THEN [Name |-> "a", Weigth |-> 100, Active |-> TRUE]
                    ELSE IF id = 2 THEN [Name |-> "b", Weigth |-> 0, Active |-> TRUE]
                    ELSE NoBackend]
    /\ uuids = 2
    /\ Strategy \in StrategyTypes
    /\ HealthCheck = TRUE
    /\ Switchover = 0
    /\ NextTargetDistr = <<1>>
    /\ lenNextTargetDistr = 1
    /\ switchover = [s \in SwitchoverIDs |-> NoSwitchover]
    /\ counter = 0
    /\ admin = [pc |-> "idle", s |-> 0]
    /\ ret = "nil"
    /\ crashed = FALSE
    /\ InitOutside({1, 2})

\* the inputs of StartSwitchOver in Spec: <<weightChange, force, rollback>>
Starts == {<<60, FALSE, TRUE>>, <<60, TRUE, FALSE>>, <<50, TRUE, FALSE>>}

\* Spec: a route in service whose admin caller starts and removes switchovers
\* while the loops of the switchovers started so far run
Next ==
    \/ \E from \in {"a", ""}, to \in {"a", "b"}, st \in Starts :
         StartSwitchOver(from, to, <<0>>, 1, st[1], st[2], st[3])
    \/ RemoveSwitchOver
    \/ RemoveSwitchOverSend
    \/ \E s \in SwitchoverIDs : Start(s)
    \/ \E s \in SwitchoverIDs : Killed(s)
    \/ \E s \in SwitchoverIDs : Timer(s, 1)
    \/ \E s \in SwitchoverIDs, err \in BOOLEAN, isTrue \in {<<TRUE>>, <<FALSE>>} :
         Cycle(s, err, isTrue)
    \/ \E s \in SwitchoverIDs : Update(s)
    \/ \E s \in SwitchoverIDs : LoopStop(s)
    \/ \E s \in SwitchoverIDs : LoopSend(s)

Spec == Init /\ [][Next]_vars

\* SpecCycle: one switchover from the return of the StartSwitchOver that created
\* it, on every outcome of its cycles, with health checks flipping `to`, the
\* admin caller setting a weight and removing the switchover
CycleConditionLists == {<<0>>, <<1, 0>>}
CycleWeightChanges == {30, 50}
CycleAllowedFailures == {0, 1, 2}

InitCycle ==
    /\ Backends = {1, 2}
    /\ backend = [id \in BackendIDs |->
                    IF id = 1 THEN [Name |-> "a", Weigth |-> 100, Active |-> TRUE]
                    ELSE IF id = 2 THEN [Name |-> "b", Weigth |-> 0, Active |-> TRUE]
                    ELSE NoBackend]
    /\ uuids = 2
    /\ Strategy = "sticky"
    /\ HealthCheck = TRUE
    /\ Switchover = 1
    /\ NextTargetDistr = <<1>>
    /\ lenNextTargetDistr = 1
    /\ \E conditions \in CycleConditionLists, allowedFailures \in CycleAllowedFailures,
          weightChange \in CycleWeightChanges, rollback \in BOOLEAN :
         switchover = [s \in SwitchoverIDs |->
                         IF s = 1
                         THEN NewSwitchover(1, 2, conditions, allowedFailures,
                                            weightChange, rollback)
                         ELSE NoSwitchover]
    /\ counter = 1
    /\ admin = [pc |-> "idle", s |-> 0]
    /\ ret = "nil"
    /\ crashed = FALSE
    /\ InitOutside({1, 2})

NextCycle ==
    \/ Start(1)
    \/ Killed(1)
    \/ \E wait \in Waits : Timer(1, wait)
    \/ \E err \in BOOLEAN, isTrue \in [DOMAIN switchover[1].Conditions -> BOOLEAN] :
         Cycle(1, err, isTrue)
    \/ Update(1)
    \/ LoopStop(1)
    \/ LoopSend(1)
    \/ RunHealthCheckOnBackends(2, 0)
    \/ validateStatus(2, 200)
    \/ UpdateBackendWeight(2, 100)
    \/ RemoveSwitchOver
    \/ RemoveSwitchOverSend

SpecCycle == InitCycle /\ [][NextCycle]_vars

\* SpecRoute: a route from its construction, the admin caller adding, removing
\* and reweighting backends, health checks flipping them
NextRoute ==
    \/ \E name \in Names, weight \in Weights :
         AddBackend(name, weight) /\ UNCHANGED preAdd
    \/ Reload(1)
    \/ \E id \in BackendIDs : RemoveBackend(id)
    \/ \E id \in BackendIDs, w \in Weights : UpdateBackendWeight(id, w)
    \/ \E id \in BackendIDs : RunHealthCheckOnBackends(id, 0)
    \/ \E id \in BackendIDs : validateStatus(id, 200)

SpecRoute == InitRoute /\ [][NextRoute]_vars

\* SpecAddRemove: the route of SpecRoute until one AddBackend is put under watch:
\* preAdd keeps its backend and the vector before it.  From then on the steps
\* are Reload, health flips and UpdateBackendWeight of that backend, and its
\* RemoveBackend.
AddRemoveWeights == {50, 100}

\* the history of an AddBackend that is put under watch
Watch == preAdd' = IF uuids' = uuids THEN preAdd
                   ELSE [id |-> uuids', distr |-> NextTargetDistr]

NextAddRemove ==
    \/ \E name \in Names, weight \in AddRemoveWeights :
         preAdd.id = 0 /\ AddBackend(name, weight) /\ UNCHANGED preAdd
    \/ \E name \in Names, weight \in AddRemoveWeights :
         preAdd.id = 0 /\ AddBackend(name, weight) /\ Watch
    \/ \E id \in BackendIDs :
         (preAdd.id = 0 \/ preAdd.id = id) /\ RemoveBackend(id)
    \/ \E id \in BackendIDs, w \in AddRemoveWeights :
         (preAdd.id = 0 \/ preAdd.id = id) /\ UpdateBackendWeight(id, w)
    \/ Reload(1)
    \/ \E id \in BackendIDs : RunHealthCheckOnBackends(id, 0)
    \/ \E id \in BackendIDs : validateStatus(id, 200)

SpecAddRemove == InitRoute /\ [][NextAddRemove]_vars

\* SpecRemove: a route with the backends a, b, c and one switchover from a to b,
\* from the return of the StartSwitchOver that created it; its cycles pass or
\* fail, and the admin caller removes backends and the switchover
RemoveAllowedFailures == {1, 2}

InitRemove ==
    /\ Backends = {1, 2, 3}
    /\ backend = [id \in BackendIDs |->
                    IF id = 1 THEN [Name |-> "a", Weigth |-> 100, Active |-> TRUE]
                    ELSE IF id = 2 THEN [Name |-> "b", Weigth |-> 0, Active |-> TRUE]
                    ELSE IF id = 3 THEN [Name |-> "c", Weigth |-> 0, Active |-> TRUE]
                    ELSE NoBackend]
    /\ uuids = 3
    /\ Strategy = "sticky"
    /\ HealthCheck = TRUE
    /\ Switchover = 1
    /\ NextTargetDistr = <<1>>
    /\ lenNextTargetDistr = 1
    /\ \E allowedFailures \in RemoveAllowedFailures, rollback \in BOOLEAN :
         switchover = [s \in SwitchoverIDs |->
                         IF s = 1
                         THEN NewSwitchover(1, 2, <<0>>, allowedFailures, 50, rollback)
                         ELSE NoSwitchover]
    /\ counter = 1
    /\ admin = [pc |-> "idle", s |-> 0]
    /\ ret = "nil"
    /\ crashed = FALSE
    /\ InitOutside({1, 2, 3})

NextRemove ==
    \/ Start(1)
    \/ Killed(1)
    \/ Timer(1, 1)
    \/ \E isTrue \in {<<TRUE>>, <<FALSE>>} : Cycle(1, FALSE, isTrue)
    \/ Update(1)
    \/ LoopStop(1)
    \/ LoopSend(1)
    \/ \E id \in BackendIDs : RemoveBackend(id)
    \/ RemoveSwitchOver
    \/ RemoveSwitchOverSend

SpecRemove == InitRemove /\ [][NextRemove]_vars

\* SpecMonitor: a route without health checks after AddBackend("a", 100) and
\* Reload: backend a is registered in the repository and its Monitor goroutine
\* is about to begin.  The monitor runs, the admin caller removes backends from
\* the route or from the repository, and Repository.Stop is called.
MonitorWaits == {1, 2}

InitMonitor ==
    /\ Backends = {1}
    /\ backend = [id \in BackendIDs |->
                    IF id = 1 THEN [Name |-> "a", Weigth |-> 100, Active |-> TRUE]
                    ELSE NoBackend]
    /\ uuids = 1
    /\ Strategy = "sticky"
    /\ HealthCheck = FALSE
    /\ Switchover = 0
    /\ NextTargetDistr = <<1>>
    /\ lenNextTargetDistr = 1
    /\ switchover = [s \in SwitchoverIDs |-> NoSwitchover]
    /\ counter = 0
    /\ admin = [pc |-> "idle", s |-> 0]
    /\ ret = "nil"
    /\ crashed = FALSE
    /\ InChannel = <<>>
    /\ repoBackends = {1}
    /\ \E activeFor \in MonitorActiveFors :
         monitoredBackend = [id \in BackendIDs |->
            IF id = 1 THEN NewMonitoredBackend(activeFor) ELSE NoMonitoredBackend]
    /\ repository = NewMetricsRepository
    /\ tree = NewRouter
    /\ preAdd = [id |-> 0, distr |-> <<>>]
    /\ lastHandle = NoHandle
    /\ response = NoResponse
    /\ NoScrape
    /\ NoRates
    /\ selection = NoSelection
    /\ listen = NoListen

NextMonitor ==
    \/ \E id \in BackendIDs : MonitorStart(id)
    \/ \E id \in BackendIDs : MonitorSelect(id)
    \/ \E id \in BackendIDs, err \in BOOLEAN, isReached \in BOOLEAN :
         MonitorTick(id, err, isReached)
    \/ \E id \in BackendIDs : MonitorSend(id)
    \/ \E id \in BackendIDs, wait \in MonitorWaits : MonitorSleep(id, wait)
    \/ \E id \in BackendIDs : RemoveBackend(id)
    \/ \E id \in BackendIDs : RepositoryRemoveBackend(id)
    \/ RemoveBackendSend
    \/ RepositoryStop
    \/ StopShutdown
    \/ StopScraping
    \/ \E id \in BackendIDs : StopRange(id)
    \/ StopMonitoring
    \/ StopReturn
    \/ Listen
    \/ jobLoop

SpecMonitor == InitMonitor /\ [][NextMonitor]_vars

\* SpecHealth: a route in service with health checks and the backends a and b,
\* registered by Reload, each active or not: the periodic health checks, the
\* checks of validateStatus, client requests, and weight updates by the admin
HealthWeights == {0, 50, 100}

InitHealth ==
    /\ Backends = {1, 2}
    /\ \E active \in [{1, 2} -> BOOLEAN] :
         /\ backend = [id \in BackendIDs |->
                IF id = 1 THEN [Name |-> "a", Weigth |-> 100, Active |-> active[1]]
                ELSE IF id = 2 THEN [Name |-> "b", Weigth |-> 50, Active |-> active[2]]
                ELSE NoBackend]
         /\ \E order \in Orders({1, 2}) :
              LET u == updateWeights(order,
                          [id \in BackendIDs |->
                             IF id = 1 THEN [Name |-> "a", Weigth |-> 100, Active |-> active[1]]
                             ELSE IF id = 2 THEN [Name |-> "b", Weigth |-> 50, Active |-> active[2]]
                             ELSE NoBackend])
              IN  /\ NextTargetDistr = u.NextTargetDistr
                  /\ lenNextTargetDistr = u.lenNextTargetDistr
    /\ uuids = 2
    /\ Strategy = "random"
    /\ HealthCheck = TRUE
    /\ Switchover = 0
    /\ switchover = [s \in SwitchoverIDs |-> NoSwitchover]
    /\ counter = 0
    /\ admin = [pc |-> "idle", s |-> 0]
    /\ ret = "nil"
    /\ crashed = FALSE
    /\ InitOutside({1, 2})

NextHealth ==
    \/ \E id \in BackendIDs, outcome \in HealthOutcomes : RunHealthCheckOnBackends(id, outcome)
    \/ \E id \in BackendIDs, outcome \in HealthOutcomes : validateStatus(id, outcome)
    \/ \E outcome \in HealthOutcomes, copyFails, done, recorded \in BOOLEAN :
         Handler(outcome, copyFails, done, recorded)
    \/ \E id \in BackendIDs, w \in HealthWeights : UpdateBackendWeight(id, w)

SpecHealth == InitHealth /\ [][NextHealth]_vars

\* SpecRouter: the router from NewRouter, handlers added and removed
NextRouter ==
    \/ \E method \in RouterMethods, prefix \in RouterPrefixes, handler \in RouterHandlers :
         AddHandler(method, prefix, handler)
    \/ \E method \in RouterMethods, prefix \in RouterPrefixes : RemoveHandle(method, prefix)

InitRouter == InitRoute /\ ~HealthCheck

SpecRouter == InitRouter /\ [][NextRouter]_vars

\* SpecServe: a router with any set of registered handlers (what calls of
\* AddHandler and RemoveHandle with valid methods and prefixes leave), serving
\* requests
ServePrefixes == {prefix \in RouterPrefixes : prefix # <<>> /\ prefix[1] = "/"}

\* the maps r.tree can be: a method without tree has no handle, and only valid
\* prefixes are inserted
Trees ==
    {t \in [TreeMethods -> [exists : BOOLEAN,
                            handles : [RouterPrefixes -> {0} \cup RouterHandlers]]] :
        \A method \in TreeMethods, prefix \in RouterPrefixes :
            t[method].handles[prefix] # 0 => t[method].exists /\ prefix \in ServePrefixes}

InitServe ==
    /\ Backends = {}
    /\ backend = [id \in BackendIDs |-> NoBackend]
    /\ uuids = 0
    /\ Strategy = "nil"
    /\ HealthCheck = FALSE
    /\ Switchover = 0
    /\ NextTargetDistr = <<>>
    /\ lenNextTargetDistr = 0
    /\ switchover = [s \in SwitchoverIDs |-> NoSwitchover]
    /\ counter = 0
    /\ admin = [pc |-> "idle", s |-> 0]
    /\ ret = "nil"
    /\ crashed = FALSE
    /\ InChannel = <<>>
    /\ repoBackends = {}
    /\ monitoredBackend = [id \in BackendIDs |-> NoMonitoredBackend]
    /\ repository = NewMetricsRepository
    /\ tree \in Trees
    /\ preAdd = [id |-> 0, distr |-> <<>>]
    /\ lastHandle = NoHandle
    /\ response = NoResponse
    /\ NoScrape
    /\ NoRates
    /\ selection = NoSelection
    /\ listen = NoListen

NextServe ==
    \E method \in RouterMethods, path \in RouterPaths, behaviour \in HandlerBehaviours :
        ServeHTTP(method, path, behaviour)

SpecServe == InitServe /\ [][NextServe]_vars

\* an empty route, an empty router and an empty repository
InitQuiet ==
    /\ Backends = {}
    /\ backend = [id \in BackendIDs |-> NoBackend]
    /\ uuids = 0
    /\ Strategy = "nil"
    /\ HealthCheck = FALSE
    /\ Switchover = 0
    /\ NextTargetDistr = <<>>
    /\ lenNextTargetDistr = 0
    /\ switchover = [s \in SwitchoverIDs |-> NoSwitchover]
    /\ counter = 0
    /\ admin = [pc |-> "idle", s |-> 0]
    /\ ret = "nil"
    /\ crashed = FALSE
    /\ InChannel = <<>>
    /\ repoBackends = {}
    /\ monitoredBackend = [id \in BackendIDs |-> NoMonitoredBackend]
    /\ repository = NewMetricsRepository
    /\ tree = NewRouter
    /\ preAdd = [id |-> 0, distr |-> <<>>]
    /\ lastHandle = NoHandle
    /\ response = NoResponse

\* SpecScrape: an instance with its scrape body and metric names, scraped again
\* and again
InitScrape ==
    /\ InitQuiet
    /\ instance \in ScrapeInstances
    /\ scrapeMetricsChannel = <<>>
    /\ NoRates
    /\ selection = NoSelection
    /\ listen = NoListen

NextScrape == \E err \in BOOLEAN : scrapeJob(err)

SpecScrape == InitScrape /\ [][NextScrape]_vars

\* SpecRates: the rates of a window aggregate, read again and again
InitRates ==
    /\ InitQuiet
    /\ NoScrape
    /\ current \in WindowAggregates
    /\ metricRates = <<>>
    /\ selection = NoSelection
    /\ listen = NoListen

NextRates == \E err \in BOOLEAN : ReadRatesOfBackend(err)

SpecRates == InitRates /\ [][NextRates]_vars

\* SpecSelect: a route in service with the backends a and b, requests selecting
\* a backend while the admin caller sets weights
SelectWeights == {0, 50, 100}

InitSelect ==
    /\ Backends = {1, 2}
    /\ backend = [id \in BackendIDs |->
                    IF id = 1 THEN [Name |-> "a", Weigth |-> 100, Active |-> TRUE]
                    ELSE IF id = 2 THEN [Name |-> "b", Weigth |-> 0, Active |-> TRUE]
                    ELSE NoBackend]
    /\ uuids = 2
    /\ Strategy = "sticky"
    /\ HealthCheck = FALSE
    /\ Switchover = 0
    /\ NextTargetDistr = <<1>>
    /\ lenNextTargetDistr = 1
    /\ switchover = [s \in SwitchoverIDs |-> NoSwitchover]
    /\ counter = 0
    /\ admin = [pc |-> "idle", s |-> 0]
    /\ ret = "nil"
    /\ crashed = FALSE
    /\ InitOutside({1, 2})

NextSelect ==
    \/ getNextBackendCheck
    \/ getNextBackendReadLen
    \/ getNextBackendReadDistr
    \/ \E idx \in 0..(2 * MaxBackends) : getNextBackendIndex(idx)
    \/ \E id \in BackendIDs, newWeigth \in SelectWeights : UpdateBackendWeightDistr(id, newWeigth)
    \/ updateWeightsLen

SpecSelect == InitSelect /\ [][NextSelect]_vars

\* SpecAlerts: a route with health checks and one registered backend whose
\* Monitor loop runs, while the goroutines that Reload starts run validateStatus
InitAlerts ==
    /\ Backends = {1}
    /\ backend = [id \in BackendIDs |->
                    IF id = 1 THEN [Name |-> "a", Weigth |-> 100, Active |-> TRUE]
                    ELSE NoBackend]
    /\ uuids = 1
    /\ Strategy = "sticky"
    /\ HealthCheck = TRUE
    /\ Switchover = 0
    /\ NextTargetDistr = <<1>>
    /\ lenNextTargetDistr = 1
    /\ switchover = [s \in SwitchoverIDs |-> NoSwitchover]
    /\ counter = 0
    /\ admin = [pc |-> "idle", s |-> 0]
    /\ ret = "nil"
    /\ crashed = FALSE
    /\ InitOutside({1})

NextAlerts ==
    \/ MonitorSelect(1)
    \/ \E err \in BOOLEAN, isReached \in BOOLEAN : MonitorTick(1, err, isReached)
    \/ MonitorSend(1)
    \/ \E wait \in MonitorWaits : MonitorSleep(1, wait)
    \/ \E outcome \in HealthOutcomes : validateStatus(1, outcome)

SpecAlerts == InitAlerts /\ [][NextAlerts]_vars

\* SpecListen: a repository with the backends 1 and 2 registered; requests and
\* scrape goroutines of both send to the two channels of Listen, backend 1
\* stays and backend 2 is removed at some time
InitListen ==
    /\ Backends = {}
    /\ backend = [id \in BackendIDs |-> NoBackend]
    /\ uuids = 0
    /\ Strategy = "nil"
    /\ HealthCheck = FALSE
    /\ Switchover = 0
    /\ NextTargetDistr = <<>>
    /\ lenNextTargetDistr = 0
    /\ switchover = [s \in SwitchoverIDs |-> NoSwitchover]
    /\ counter = 0
    /\ admin = [pc |-> "idle", s |-> 0]
    /\ ret = "nil"
    /\ crashed = FALSE
    /\ InitOutside({1, 2})

NextListen ==
    \/ \E id \in {1, 2} : SendMetrics(id)
    \/ \E id \in {1, 2}, Metrics \in 1..MaxScrapes : SendScrapeMetrics(id, Metrics)
    \/ ListenMetrics
    \/ \E n \in 1..MaxMeasurements : PromMetricsUpdate(n)
    \/ \E found \in {"found", "missing", "fatal"} : ListenWrite(found)
    \/ \E found \in {"found", "missing", "fatal"} : ListenScrapeMetrics(found)
    \/ RemoveBackendSignal(2)
    \/ RemoveBackendDelete

SpecListen == InitListen /\ [][NextListen]_vars

\* SpecHealthy: one switchover from a (weight 100) to b (weight 0) whose every
\* rate read succeeds and whose every condition is true in every cycle, `to`
\* active, nobody stopping it.  The goroutine of the loop is scheduled and its
\* timer fires: weak fairness of its steps.
HealthyWeightChanges == {10, 30, 50}

InitHealthy ==
    /\ Backends = {1, 2}
    /\ backend = [id \in BackendIDs |->
                    IF id = 1 THEN [Name |-> "a", Weigth |-> 100, Active |-> TRUE]
                    ELSE IF id = 2 THEN [Name |-> "b", Weigth |-> 0, Active |-> TRUE]
                    ELSE NoBackend]
    /\ uuids = 2
    /\ Strategy = "sticky"
    /\ HealthCheck = TRUE
    /\ Switchover = 1
    /\ NextTargetDistr = <<1>>
    /\ lenNextTargetDistr = 1
    /\ \E conditions \in CycleConditionLists, weightChange \in HealthyWeightChanges,
          rollback \in BOOLEAN :
         switchover = [s \in SwitchoverIDs |->
                         IF s = 1
                         THEN NewSwitchover(1, 2, conditions, 1, weightChange, rollback)
                         ELSE NoSwitchover]
    /\ counter = 1
    /\ admin = [pc |-> "idle", s |-> 0]
    /\ ret = "nil"
    /\ crashed = FALSE
    /\ InitOutside({1, 2})

NextHealthy ==
    \/ Start(1)
    \/ Killed(1)
    \/ \E wait \in Waits : Timer(1, wait)
    \/ Cycle(1, FALSE, [i \in DOMAIN switchover[1].Conditions |-> TRUE])
    \/ Update(1)
    \/ LoopStop(1)
    \/ LoopSend(1)

SpecHealthy == InitHealthy /\ [][NextHealthy]_vars /\ WF_vars(NextHealthy)

\* ------------------------------------------------------------------ claims
\* the weights of the two backends of switchover s
FromWeigth(s) == backend[switchover[s].From].Weigth
ToWeigth(s) == backend[switchover[s].To].Weigth

\* the loop of switchover s is running: Start() has set Running and not returned
Executing(s) == switchover[s].pc \in {"select", "cycle", "update", "stop", "send"}

\* C1: whenever the loop started by Start() has returned, Status is Success,
\* Failed or Stopped, never Registered or Running; Success only with
\* from.weight = 0 or to.weight = 100, Failed only with
\* failureCounter > allowedFailures.
C1_LoopExitsTerminal ==
    \A s \in SwitchoverIDs :
        switchover[s].pc = "return" =>
            /\ switchover[s].Status \in {"Success", "Failed", "Stopped"}
            /\ switchover[s].Status = "Success" => (FromWeigth(s) = 0 \/ ToWeigth(s) = 100)
            /\ switchover[s].Status = "Failed" =>
                  switchover[s].FailureCounter > switchover[s].AllowedFailures

\* C5: at most one switchover loop of the route is executing at any time (a
\* StartSwitchOver issued while an earlier switchover has not terminated starts
\* no loop).
C5_OneLoopExecuting ==
    Cardinality({s \in SwitchoverIDs : Executing(s)}) <= 1

\* a step of the admin caller is a call of StartSwitchOver
StartSwitchOverCall ==
    \E from \in {"a", ""}, to \in {"a", "b"}, st \in Starts :
        StartSwitchOver(from, to, <<0>>, 1, st[1], st[2], st[3])

\* C6: whenever StartSwitchOver returns an error, also with force = true, the
\* route's strategy, every backend weight, the distribution vector and the
\* route's current switchover are the same as before the call.
C6_ErrorLeavesRoute ==
    [][(StartSwitchOverCall /\ ret' = "error") =>
          UNCHANGED <<Strategy, backend, NextTargetDistr, lenNextTargetDistr, Switchover>>]_vars

\* C2: a healthy switchover started at (from, to) = (100, 0) ends its loop with
\* Status = Success and the weights (0, 100), failureCounter never incremented.
C2_HealthyEndsAtZeroHundred ==
    /\ switchover[1].FailureCounter = 0
    /\ switchover[1].pc = "return" =>
         /\ switchover[1].Status = "Success"
         /\ FromWeigth(1) = 0
         /\ ToWeigth(1) = 100

\* a cycle of switchover 1 whose rates were read and in which some condition
\* evaluates false
FailingCycle ==
    \E isTrue \in [DOMAIN switchover[1].Conditions -> BOOLEAN] :
        /\ \E i \in DOMAIN isTrue : ~isTrue[i]
        /\ Cycle(1, FALSE, isTrue)

\* C3: a cycle in which some condition evaluates false adds exactly one to
\* failureCounter, however many conditions there are, and changes no backend
\* weight; with allowedFailures = n > 0 it sets Failed exactly when the counter
\* passes n, so Status is Failed only with failureCounter = n + 1.
C3_FailingCycleCounts ==
    [][/\ FailingCycle =>
            /\ switchover'[1].FailureCounter = switchover[1].FailureCounter + 1
            /\ backend' = backend
            /\ switchover[1].AllowedFailures > 0 =>
                 ((switchover'[1].Status = "Failed") <=>
                    (switchover'[1].FailureCounter > switchover[1].AllowedFailures))
       /\ switchover'[1].Status = "Failed" =>
            /\ switchover'[1].AllowedFailures > 0
            /\ switchover'[1].FailureCounter = switchover'[1].AllowedFailures + 1]_vars

C3_Witness ==
    /\ Len(switchover[1].Conditions) = 2
    /\ switchover[1].AllowedFailures = 2
    /\ switchover[1].FailureCounter = 3
    /\ switchover[1].Status = "Failed"
    /\ switchover[1].pc = "stop"

\* a call of Stop() on switchover 1, by its loop or by RemoveSwitchOver
StopCall == LoopStop(1) \/ (Switchover = 1 /\ RemoveSwitchOver)

C7_StopAfterReturnIsNoOp ==
    [][(switchover[1].pc = "return" /\ Switchover = 1 /\ RemoveSwitchOver) =>
          /\ backend' = backend
          /\ switchover'[1].Status = switchover[1].Status]_vars

\* C8: every element of the distribution vector is a backend of the route's
\* backend map with active = true.
C8_DistrOnlyActiveMapped ==
    \A k \in DOMAIN NextTargetDistr :
        /\ NextTargetDistr[k] \in Backends
        /\ backend[NextTargetDistr[k]].Active

\* a step that runs updateWeights on the map it leaves, and returns from it
Recomputation ==
    /\ \/ ~HealthCheck /\ Reload(1)
       \/ \E id \in Backends, w \in Weights : UpdateBackendWeight(id, w)
       \/ \E id \in Backends : validateStatus(id, 200) /\ ~backend[id].Active
       \/ \E id \in Backends : RunHealthCheckOnBackends(id, 0) /\ backend[id].Active
    /\ \E order \in Orders(Backends') : ~updateWeights(order, backend').panic

\* C9: after every recomputation by updateWeights the distribution vector is
\* empty if and only if every backend of the route is inactive.
C9_EmptyIffAllInactive ==
    [][Recomputation =>
          ((NextTargetDistr' = <<>>) <=> (\A id \in Backends' : ~backend'[id].Active))]_vars

\* a step that calls updateWeights
UpdateWeightsCall ==
    \/ ~HealthCheck /\ Reload(1)
    \/ \E id \in Backends, w \in Weights : UpdateBackendWeight(id, w)
    \/ \E id \in Backends : validateStatus(id, 200) /\ ~backend[id].Active
    \/ \E id \in Backends : RunHealthCheckOnBackends(id, 0) /\ backend[id].Active

ActiveBackends == {id \in Backends : backend[id].Active}

\* the greatest common divisor of the weights of a set of backends of the heap
RECURSIVE SetGCD(_, _)
SetGCD(S, heap) ==
    IF S = {} THEN 0
    ELSE LET id == CHOOSE x \in S : TRUE
         IN  GCD(heap[id].Weigth, SetGCD(S \ {id}, heap))

RECURSIVE SetSum(_, _)
SetSum(S, heap) ==
    IF S = {} THEN 0
    ELSE LET id == CHOOSE x \in S : TRUE
         IN  heap[id].Weigth + SetSum(S \ {id}, heap)

Positions(distr, id) == {k \in DOMAIN distr : distr[k] = id}

\* the positions of distr after which another backend follows
Boundaries(distr) == {k \in 1..(Len(distr) - 1) : distr[k] # distr[k + 1]}

\* every backend of distr fills one run of consecutive positions
Consecutive(distr) ==
    distr # <<>> =>
        Cardinality(Boundaries(distr)) + 1 = Cardinality({distr[k] : k \in DOMAIN distr})

\* C10: when the weights of the active backends have a gcd g > 0, updateWeights
\* returns with a vector of length (sum of the weights) / g in which each active
\* backend b fills weight_b / g consecutive positions: no panic (no write out
\* of range), no position left nil.
C10_VectorIsWeightsOverGcd ==
    [][(UpdateWeightsCall /\ SetGCD(ActiveBackends', backend') > 0) =>
          LET g == SetGCD(ActiveBackends', backend')
              distr == NextTargetDistr'
          IN  /\ ret' # "panic"
              /\ ~crashed'
              /\ Len(distr) = SetSum(ActiveBackends', backend') \div g
              /\ lenNextTargetDistr' = Len(distr)
              /\ \A id \in ActiveBackends' :
                   Cardinality(Positions(distr, id)) = backend'[id].Weigth \div g
              /\ Consecutive(distr)]_vars

\* the vectors s and t hold every backend equally often
SameBackends(s, t) ==
    \A id \in BackendIDs : Cardinality(Positions(s, id)) = Cardinality(Positions(t, id))

\* C11: AddBackend(b) followed, after recomputations by Reload, health flips or
\* UpdateBackendWeight of b, by RemoveBackend(b.ID) leaves a distribution vector
\* that is, as a multiset of backends, the one before the add.
C11_AddRemoveRestoresDistr ==
    [][(preAdd.id # 0 /\ RemoveBackend(preAdd.id) /\ ret' = "nil") =>
          SameBackends(NextTargetDistr', preAdd.distr)]_vars

\* backend id is the from or the to of the route's switchover, which has not ended
OfActiveSwitchover(id) ==
    /\ Switchover # 0
    /\ switchover[Switchover].Status \in {"Registered", "Running"}
    /\ id \in {switchover[Switchover].From, switchover[Switchover].To}

\* C12: RemoveBackend(id) is refused, leaving the backend map and the
\* registration in the metrics repository, exactly when id is the from or to of a
\* switchover of the route that has not ended; for every other backend, the
\* from/to of an ended switchover included, it deletes the entry and the
\* registration.
C12_RemoveBackendRefusedIffActive ==
    [][\A id \in BackendIDs : RemoveBackend(id) =>
          IF OfActiveSwitchover(id)
          THEN Backends' = Backends /\ repoBackends' = repoBackends
          ELSE id \notin Backends' /\ id \notin repoBackends']_vars

\* the Monitor loop of backend id promotes the alert at this tick
Promotes(id, type) ==
    /\ MonitorTick(id, FALSE, type = "Alarming")
    /\ monitoredBackend'[id].out.Type = type

\* C13: with activeFor = d the monitor loop promotes an alert to Alarming only
\* when the condition has evaluated true at every tick for more than d; a false
\* tick in between restarts the count.
C13_AlarmingAfterContinuousTruth ==
    [][\A id \in BackendIDs : Promotes(id, "Alarming") =>
          monitoredBackend'[id].trueFor > monitoredBackend[id].ActiveFor]_vars

\* C14: with activeFor = d the monitor loop marks an alert Resolved only when the
\* condition has evaluated false at every tick for more than d; a true tick in
\* between restarts the count, so no alert is resolved at the first false tick
\* after a period of truth.
C14_ResolvedAfterContinuousFalsity ==
    [][\A id \in BackendIDs : Promotes(id, "Resolved") =>
          monitoredBackend'[id].falseFor > monitoredBackend[id].ActiveFor]_vars

\* the stop signal of the monitor of backend id has been sent and not yet taken
StopSignalled(id) == monitoredBackend[id].stopMonitoring > 0

\* C15: after the stop signal of a backend's monitor has been sent, the Monitor
\* loop sends no further alert on the alert channel and does not stay waiting at
\* a send that nobody receives.
C15_NoSendAfterStopSignal ==
    [][\A id \in BackendIDs :
          /\ MonitorSend(id) => ~StopSignalled(id)
          /\ MonitorTick(id, FALSE, TRUE) /\ StopSignalled(id) =>
                monitoredBackend'[id].pc # "send"
          /\ MonitorTick(id, FALSE, FALSE) /\ StopSignalled(id) =>
                monitoredBackend'[id].pc # "send"]_vars

\* nothing takes the stop signal of backend id any more: its Monitor loop has
\* returned, or waits at a send on the alert channel that nobody receives
NeverTaken(id) ==
    \/ monitoredBackend[id].pc = "return"
    \/ monitoredBackend[id].pc = "send" /\ ~monitoredBackend[id].receiver

\* C16: Repository.RemoveBackend(id) returns without blocking in every reachable
\* state: it never waits at its send of the stop signal while nothing takes the
\* signal that fills the channel.
C16_RemoveBackendNeverBlocks ==
    ~(/\ admin.pc = "stopMonitoring"
      /\ StopSignalled(admin.s)
      /\ NeverTaken(admin.s))

\* a client request is proxied
ProxiedRequest ==
    \E outcome \in HealthOutcomes, copyFails, done, recorded \in BOOLEAN :
        Handler(outcome, copyFails, done, recorded)

\* a health check of backend id with this outcome is run, by the periodic loop
\* or by validateStatus
HealthCheckRun(id, outcome) ==
    RunHealthCheckOnBackends(id, outcome) \/ validateStatus(id, outcome)

\* C17: every proxied client request and every health check emits exactly one
\* measurement on the metrics channel, also when the upstream send fails, the
\* request context is cancelled or the body copy fails.
C17_OneMeasurement ==
    [][(\/ ProxiedRequest
        \/ \E id \in BackendIDs, outcome \in HealthOutcomes : HealthCheckRun(id, outcome))
          => Len(InChannel') = 1]_vars

\* C18: a health check that ends in a transport failure (0) or in a response
\* whose status is not 2xx (500) sets the backend's active flag to false, leaves
\* a distribution without the backend, and puts a measurement with
\* ResponseStatus = 600 on the metrics channel.
C18_FailedCheckDeactivates ==
    [][\A id \in BackendIDs, outcome \in {0, 500} : HealthCheckRun(id, outcome) =>
          /\ ~backend'[id].Active
          /\ \A k \in DOMAIN NextTargetDistr' : NextTargetDistr'[k] # id
          /\ InChannel' = <<600>>]_vars

\* C19: whenever a backend with active = false passes a health check issued by
\* the periodic health-check loop, its active flag becomes true and the
\* recomputed distribution includes it when its weight is positive.
C19_PassedCheckActivates ==
    [][\A id \in BackendIDs :
          (~backend[id].Active /\ RunHealthCheckOnBackends(id, 200)) =>
              /\ backend'[id].Active
              /\ backend'[id].Weigth > 0 =>
                    \E k \in DOMAIN NextTargetDistr' : NextTargetDistr'[k] = id]_vars

\* the registered (method, prefix, handler) entries of the router
Entries ==
    {e \in TreeMethods \X RouterPrefixes \X RouterHandlers : tree[e[1]].handles[e[2]] = e[3]}

\* AddHandler has to reject method and prefix
Rejects(method, prefix) ==
    \/ method = ""
    \/ prefix = <<>>
    \/ prefix[1] # "/"
    \/ Handle(ToUpper(method), prefix) # 0

\* the step is the call AddHandler(method, prefix, handler), which the history
\* lastHandle records
AddHandlerCall(method, prefix, handler) ==
    /\ lastHandle'.prefix = prefix
    /\ lastHandle'.handler = handler
    /\ AddHandler(method, prefix, handler)

\* C20: AddHandler(method, prefix, h) returns an error and leaves the registered
\* entries unchanged when method is empty, when prefix is empty or does not
\* start with "/", or when a handler is already registered for the upper-cased
\* method and the prefix (the first handler stays); otherwise it registers h
\* without error, so that an identical second AddHandler is rejected.
C20_AddHandlerRejectsOrRegisters ==
    [][\A method \in RouterMethods, prefix \in RouterPrefixes, handler \in RouterHandlers :
          AddHandlerCall(method, prefix, handler) =>
             IF Rejects(method, prefix)
             THEN ret' = "error" /\ Entries' = Entries
             ELSE /\ ret' = "nil"
                  /\ Entries' = Entries \cup {<<ToUpper(method), prefix, handler>>}
                  /\ Rejects(method, prefix)']_vars

\* the last AddHandler was given another handler for a method and prefix that
\* had one: it returned an error and the first handler is still in place
C20_Witness ==
    /\ lastHandle.before # 0
    /\ lastHandle.handler # lastHandle.before
    /\ ret = "error"
    /\ Handle(lastHandle.method, lastHandle.prefix) = lastHandle.before

\* the entries registered under method whose prefix is a prefix of path
PrefixEntries(method, path) ==
    {e \in ({method} \cap TreeMethods) \X RouterPrefixes \X RouterHandlers :
        tree[e[1]].handles[e[2]] = e[3] /\ HasPrefix(path, e[2])}

\* the step is ServeHTTP on the request (method, path), which response records
ServeHTTPCall(method, path, behaviour) ==
    /\ response'.method = method
    /\ response'.path = path
    /\ ServeHTTP(method, path, behaviour)

\* C21: ServeHTTP on a request (method, path) invokes exactly the handler
\* registered under method whose prefix is the longest registered prefix of
\* path, and calls the NotFoundHandler when no prefix registered under method
\* is a prefix of path; handlers registered under another method are never
\* invoked.
C21_LongestPrefixOfMethod ==
    [][\A method \in RouterMethods, path \in RouterPaths, behaviour \in HandlerBehaviours :
          ServeHTTPCall(method, path, behaviour) =>
             IF PrefixEntries(method, path) = {}
             THEN response'.handler = 0 /\ response'.NotFoundHandler = 1
             ELSE /\ response'.NotFoundHandler = 0
                  /\ \E e \in PrefixEntries(method, path) :
                        /\ response'.handler = e[3]
                        /\ \A o \in PrefixEntries(method, path) : Len(o[2]) <= Len(e[2])]_vars

\* a request for /a/bc, with handlers registered for /a and /a/b under GET and
\* another one for /a/b under POST, was given to the handler of GET /a/b
C21_Witness ==
    /\ response.method = "GET"
    /\ response.path = <<"/", "a", "/", "b", "c">>
    /\ Handle("GET", <<"/", "a">>) # 0
    /\ Handle("GET", <<"/", "a", "/", "b">>) # 0
    /\ Handle("GET", <<"/", "a">>) # Handle("GET", <<"/", "a", "/", "b">>)
    /\ Handle("POST", <<"/", "a", "/", "b">>) # 0
    /\ Handle("POST", <<"/", "a", "/", "b">>) # Handle("GET", <<"/", "a", "/", "b">>)
    /\ response.handler = Handle("GET", <<"/", "a", "/", "b">>)

\* C22: any panic raised while a handler runs inside ServeHTTP, whatever the
\* panic value, is recovered: the ErrorHandler is invoked exactly once and no
\* panic leaves ServeHTTP.
C22_PanicRecovered ==
    [][\A method \in RouterMethods, path \in RouterPaths,
         behaviour \in {"panic error", "panic string"} :
          (ServeHTTPCall(method, path, behaviour) /\ response'.handler # 0) =>
             response'.ErrorHandler = 1 /\ ~response'.panic]_vars

\* the rows of body that are no comment and have name as their first token
Rows(body, name) == {i \in DOMAIN body : body[i][1] # "#" /\ body[i][1] = name}

\* C23: the ScrapeMetrics map delivered to the scrape channel has an entry for a
\* requested name exactly if some non-comment line of the body has the name as
\* its first token, and the value is the one of the first such line; a
\* requested name that is absent from the body produces no entry.
C23_EntryIffRowInBody ==
    [][(scrapeJob(FALSE) /\ scrapeMetricsChannel' # scrapeMetricsChannel) =>
          LET Metrics == scrapeMetricsChannel'[1]
              body == instance.body
          IN  \A i \in DOMAIN instance.ScrapeMetrics :
                LET name == instance.ScrapeMetrics[i]
                IN  IF Rows(body, name) = {}
                    THEN name \notin DOMAIN Metrics
                    ELSE /\ name \in DOMAIN Metrics
                         /\ \E row \in Rows(body, name) :
                               /\ \A other \in Rows(body, name) : row <= other
                               /\ ~parseFloat(body[row][2]).err
                               /\ Metrics[name] = parseFloat(body[row][2]).value]_vars

\* C24: for every window aggregate with integer counters, ReadRatesOfBackend
\* returns for each status class the fraction count / max(TotalResponses, 1):
\* the rate times the divisor is the count, so the five rates sum to 1 when
\* TotalResponses > 0 and are all 0 when the window holds no response.
C24_RatesAreFractions ==
    metricRates # <<>> =>
        LET rates == metricRates[1]
            divisor == IF current.TotalResponses > 1 THEN current.TotalResponses ELSE 1
        IN  /\ \A class \in StatusClasses :
                  rates[RateKey(class)] * divisor = current.ResponseStatus[class]
            /\ current.TotalResponses > 0 => SumOver(rates, RateKeys) = 1
            /\ current.TotalResponses = 0 => \A key \in RateKeys : rates[key] = 0

\* a cycle of switchover 1 that misses: the rates could not be read, some
\* condition evaluates false, or `to` is inactive
MissedCycle ==
    \E err \in BOOLEAN, isTrue \in [DOMAIN switchover[1].Conditions -> BOOLEAN] :
        /\ err \/ ~backend[switchover[1].To].Active \/ \E i \in DOMAIN isTrue : ~isTrue[i]
        /\ Cycle(1, err, isTrue)

\* C25: with allowedFailures = 0 the status Failed is unreachable: whatever the
\* cycles' outcomes (conditions false, `to` inactive, read errors), a missed
\* cycle leaves the status and the weights as they are and the loop goes on to
\* its next cycle, failureCounter growing; and no Stop() rolls the weights back.
C25_ZeroAllowedNeverFails ==
    [][switchover[1].AllowedFailures = 0 =>
          /\ switchover'[1].Status # "Failed"
          /\ MissedCycle =>
                /\ switchover'[1].Status = switchover[1].Status
                /\ switchover'[1].pc = "select"
                /\ switchover'[1].FailureCounter >= switchover[1].FailureCounter
                /\ backend' = backend
          /\ StopCall => backend' = backend]_vars

C25_Witness ==
    /\ switchover[1].AllowedFailures = 0
    /\ switchover[1].Rollback
    /\ switchover[1].FailureCounter = MaxFailures
    /\ switchover[1].Status = "Running"
    /\ switchover[1].pc = "select"
    /\ ~backend[switchover[1].To].Active

\* m.Storage.Stop() has been called: a call of Repository.Stop has returned
StorageStopped == repository.Stop = "return" \/ repository.stops > 1

\* C26: Repository.Stop() stops the store only after the loops have terminated:
\* once Storage.Stop() has been called, no Monitor loop issues a
\* Storage.ReadBackend any more (the tick of Monitor reads the store through
\* ReadRatesOfBackend).
C26_StoreStoppedAfterLoops ==
    [][StorageStopped =>
          ~ \E id \in BackendIDs, err \in BOOLEAN, isReached \in BOOLEAN :
               MonitorTick(id, err, isReached)]_vars

\* C27: in every cycle the weights of from and to are changed only if every
\* condition is latched (status = true) at the end of the cycle's evaluation; a
\* cycle in which some condition is warming up (triggerTime set, status false)
\* changes no weight and resets no condition.
C27_StepOnlyWhenAllLatched ==
    [][Update(1) =>
          \/ \A i \in DOMAIN switchover[1].Conditions : switchover[1].Conditions[i].Status
          \/ /\ backend' = backend
             /\ switchover'[1].Conditions = switchover[1].Conditions]_vars

\* C28: one weight step of the switchover yields
\* from.weight = max(from.weight - weightChange, 0) and
\* to.weight = min(to.weight + weightChange, 100); both weights stay in 0..100
\* and the unsigned 8-bit subtraction never wraps around.
C28_StepSaturates ==
    [][Update(1) =>
          LET from == FromWeigth(1)
              to == ToWeigth(1)
              weightChange == switchover[1].WeightChange
          IN  /\ from - weightChange >= 0
              /\ FromWeigth(1)' = IF from - weightChange > 0 THEN from - weightChange ELSE 0
              /\ ToWeigth(1)' = IF to + weightChange < 100 THEN to + weightChange ELSE 100
              /\ FromWeigth(1)' \in 0..100
              /\ ToWeigth(1)' \in 0..100]_vars

\* a cycle of switchover 1 whose rates were read, with the conditions' values
EvaluatingCycle(isTrue) == Cycle(1, FALSE, isTrue)

\* C29: in every state of a running switchover a condition with status = true
\* has a non-zero triggerTime, set at least activeFor before the cycle that
\* latched it; and a condition that evaluated false, or was evaluated while `to`
\* was inactive, has status = false and zero triggerTime at the end of that
\* cycle.
C29_LatchedAfterActiveFor ==
    [][/\ switchover'[1].Status = "Running" =>
            \A i \in DOMAIN switchover'[1].Conditions :
                LET condition == switchover'[1].Conditions[i]
                IN  condition.Status =>
                        /\ condition.TriggerTime # Zero
                        /\ condition.TriggerTime >= condition.ActiveFor
       /\ \A isTrue \in [DOMAIN switchover[1].Conditions -> BOOLEAN] :
            EvaluatingCycle(isTrue) =>
                \A i \in DOMAIN isTrue :
                    LET before == switchover[1].Conditions[i]
                        after == switchover'[1].Conditions[i]
                    IN  /\ (~before.Status /\ after.Status) =>
                            /\ before.TriggerTime # Zero
                            /\ before.TriggerTime >= before.ActiveFor
                            /\ after.TriggerTime = before.TriggerTime
                        /\ (~isTrue[i] \/ ~backend[switchover[1].To].Active) =>
                            /\ ~after.Status
                            /\ after.TriggerTime = Zero]_vars

C29_Witness ==
    /\ switchover[1].Status = "Running"
    /\ Len(switchover[1].Conditions) = 2
    /\ switchover[1].Conditions[1].ActiveFor = 1
    /\ switchover[1].Conditions[1].Status
    /\ switchover[1].Conditions[1].TriggerTime > 1
    /\ ~switchover[1].Conditions[2].Status
    /\ switchover[1].Conditions[2].TriggerTime = Zero
    /\ switchover[1].pc = "select"

\* C30: under any interleaving of getNextBackend with updateWeights the
\* selection reads the distribution vector and its length consistently: the
\* drawn index is within the bounds of the vector that is indexed, and the
\* result is a backend of that vector or the error "No backend is active".
C30_SelectionConsistent ==
    /\ (selection.hasLen /\ selection.hasDistr) => selection.n = Len(selection.distr)
    /\ ~selection.panic
    /\ selection.backend # 0 =>
          \E k \in DOMAIN selection.distr : selection.distr[k] = selection.backend

\* a cycle of switchover 1 whose ReadRatesOfBackend returns an error
ErrorCycle ==
    \E isTrue \in [DOMAIN switchover[1].Conditions -> BOOLEAN] : Cycle(1, TRUE, isTrue)

\* C35: a cycle whose ReadRatesOfBackend call returns an error leaves every
\* condition's triggerTime and status, failureCounter, both backend weights, the
\* distribution vector and Status unchanged, and the loop goes on to the next
\* cycle.
C35_ErrorCycleChangesNothing ==
    [][ErrorCycle =>
          /\ switchover'[1].Conditions = switchover[1].Conditions
          /\ switchover'[1].FailureCounter = switchover[1].FailureCounter
          /\ switchover'[1].Status = switchover[1].Status
          /\ backend' = backend
          /\ NextTargetDistr' = NextTargetDistr
          /\ lenNextTargetDistr' = lenNextTargetDistr
          /\ switchover'[1].pc = "select"]_vars

\* the first condition has waited since a cycle that failed on the second one,
\* and the cycle after that neither counted nor stepped: its read failed
C35_Witness ==
    /\ switchover[1].Status = "Running"
    /\ Len(switchover[1].Conditions) = 2
    /\ switchover[1].FailureCounter = 1
    /\ switchover[1].Conditions[1].TriggerTime >= 1
    /\ ~switchover[1].Conditions[1].Status
    /\ switchover[1].pc = "select"
    /\ FromWeigth(1) = 100
    /\ ToWeigth(1) = 0

\* RemoveSwitchOver, issued while switchover 1 was Running, has returned: only a
\* Stop() that finds Running sets Stopped, and the loop calls Stop() after it has
\* set Failed or Success
StoppedExplicitly == Switchover = 0 /\ switchover[1].Status = "Stopped"

\* a step of the loop of switchover 1
LoopStep ==
    \/ \E err \in BOOLEAN, isTrue \in [DOMAIN switchover[1].Conditions -> BOOLEAN] :
         Cycle(1, err, isTrue)
    \/ Update(1)
    \/ LoopStop(1)
    \/ LoopSend(1)
    \/ Killed(1)

\* C37: once a Stop() issued while the switchover was Running has returned, the
\* loop changes no backend weight any more and Status stays Stopped, also for a
\* cycle that was in progress at the time of the call; and the loop's own
\* Stop() never stands at a full kill channel.
C37_NoStepAfterExplicitStop ==
    [][/\ (StoppedExplicitly /\ LoopStep) =>
            /\ backend' = backend
            /\ switchover'[1].Status = "Stopped"
       /\ ~(switchover'[1].pc = "send" /\ switchover'[1].killChan = 1)]_vars

\* an alert of Type `type` may follow an alert of Type `last` in an episode
\* Pending, at most one Alarming, Resolved
Follows(last, type) ==
    IF type = "Pending" THEN last \in {"none", "Resolved"}
    ELSE IF type = "Alarming" THEN last = "Pending"
    ELSE last \in {"Pending", "Alarming"}

\* C34: the alerts the monitor loop sends on the alert channel of a backend form
\* episodes Pending, at most one Alarming, Resolved: no Alarming or Resolved
\* without the Pending of its episode (the one of RegisterAlert counts when it
\* opens the episode), no second Alarming in an episode.
C34_AlertEpisodes ==
    [][MonitorSend(1) =>
          Follows(monitoredBackend[1].sent, monitoredBackend[1].out.Type)]_vars

\* ------------------------------------------------------------ Listen claims
IsPrefix(s, t) == Len(s) <= Len(t) /\ \A i \in 1..Len(s) : s[i] = t[i]

\* C32: whenever Listen dequeues a measurement, PromMetrics.Update has been
\* applied to every measurement dequeued before (the store write is over: the
\* loop is back at its select), and the adapter updates are applied in the
\* order in which the measurements were dequeued.
C32_UpdateBeforeNextDequeue ==
    [][/\ ListenMetrics => listen.Update = {}
       /\ IsPrefix(listen.Updated', listen.dequeued')]_vars

\* the backend is not in m.Backends, and no delete of it is running
Removed(backendID) == backendID \notin repoBackends /\ listen.delete # backendID

\* C36: a measurement and a scrape result of a backend that has been removed
\* are discarded: Listen does not fail, writes nothing to the store and is back
\* at its select.
C36_RemovedBackendDiscarded ==
    [][/\ (\E found \in {"found", "missing", "fatal"} : ListenWrite(found))
            /\ Removed(listen.metrics.BackendID)
          => ~crashed' /\ listen.Write' = listen.Write /\ listen.pc' = "select"
       /\ (\E found \in {"found", "missing", "fatal"} : ListenScrapeMetrics(found))
            /\ Removed(Head(listen.scrapeQueue).BackendID)
          => ~crashed' /\ listen.Write' = listen.Write /\ listen.pc' = "select"]_vars

\* the backend is in m.Backends, and no delete of it is running
Registered(backendID) == backendID \in repoBackends /\ listen.delete # backendID

\* C33: every store write is the write of the measurement Listen has dequeued
\* last and carries the scrape map dequeued last for its backend (the empty map
\* if there was none), in whatever order the scrapes were delivered; every
\* dequeued measurement of a registered backend gets its one write before the
\* next is dequeued.
C33_WriteCarriesLastScrape ==
    [][/\ listen.Write' # listen.Write
          => /\ listen.pc = "lookup"
             /\ listen.metrics.n = listen.dequeued[Len(listen.dequeued)]
             /\ listen.Write' = Append(listen.Write,
                    StorageWrite(listen.metrics, listen.last[listen.metrics.BackendID]))
       /\ (\E found \in {"found", "missing", "fatal"} : ListenWrite(found))
            /\ Registered(listen.metrics.BackendID)
          => Len(listen.Write') = Len(listen.Write) + 1]_vars

\* two measurements of backend 1 written, the first with the scrape map 2, the
\* second with the scrape map 1 that was delivered after it
C33_Witness ==
    /\ Len(listen.Write) = 2
    /\ listen.Write[1].BackendID = 1 /\ listen.Write[1].scrapeMetrics = 2
    /\ listen.Write[2].BackendID = 1 /\ listen.Write[2].scrapeMetrics = 1

\* C31: in no state does RemoveBackend write the backend map m.Backends while
\* the Listen loop reads it.
C31_RegistryAccessesExclusive ==
    ~(listen.pc = "lookup" /\ listen.delete # 0)

====
